---------------------------- MODULE Spec2Model ----------------------------
(***************************************************************************)
(* Control subsystem of the SonClouTRV integration: the PID computation   *)
(* over the room-shared RoomPIDState, the valve write, the sudden-drop    *)
(* (window) freeze, the adaptive update timer and the three valve         *)
(* exercise implementations (climate entity, button, weekly switch).      *)
(*                                                                         *)
(* Numbers.  Python floats are modelled as fixed-point integers:          *)
(*   temperatures, errors, hysteresis, window thresholds : 1/100 K        *)
(*   time                                                 : seconds       *)
(*   kp, kd                                               : 1             *)
(*   ki                                                   : 1/1000        *)
(*   ka                                                   : 1/10          *)
(*   integral_error                                       : 1/100 K*s     *)
(*   p, i, d, ff terms and the percent output             : 1/100000 %    *)
(* Products and sums are exact in these units; the two divisions of the   *)
(* code that do not stay in the grid (integral * 0.9 and d_error / dt)    *)
(* round toward zero at the unit's resolution.                            *)
(* An absent value (Python None) is the integer None.                     *)
(***************************************************************************)
EXTENDS Integers, Sequences, FiniteSets, TLC

None == 0 - 100000

\* ---------------------------------------------------------------- constants
DEFAULT_TARGET_TEMP == 2150
DEFAULT_HYSTERESIS == 15
DEFAULT_KP == 5
DEFAULT_KI == 4
DEFAULT_KD == 0
DEFAULT_KA == 0
DEFAULT_WINDOW_DROP_THRESHOLD == 80
DEFAULT_WINDOW_STABLE_BAND == 30
DEFAULT_WINDOW_MAX_FREEZE == 1800
WINDOW_DROP_WINDOW == 300
DEFAULT_MIN_VALVE_UPDATE_INTERVAL == 600
STABLE_INTERVAL == 1800
EXERCISE_DWELL == 300
HISTORY_MAX == 20
INTEGRAL_MAX_DT == 3600
DEFAULT_MIN_TEMP == 600
DEFAULT_MAX_TEMP == 2500
\* one percent, in output units
PCT == 100 * 1000

\* VALVE_OPENING_STEPS.get(preset, 80)
VALVE_OPENING_STEPS(preset) ==
    CASE preset = "*" -> 0
      [] preset = "1" -> 20
      [] preset = "2" -> 40
      [] preset = "3" -> 60
      [] preset = "4" -> 80
      [] preset = "5" -> 100
      [] OTHER -> 80

PresetModes == {"*", "1", "2", "3", "4", "5"}

\* ------------------------------------------------------------------ bounds
ExMaxTime == 600
MaxPending == 2
MaxSamples == 3

\* the controllers (config entries) of the model
Ctrl == {1}

\* ----------------------------------------------------------------- helpers
Abs(x) == IF x < 0 THEN -x ELSE x
Max2(a, b) == IF a >= b THEN a ELSE b
Min2(a, b) == IF a <= b THEN a ELSE b
\* Python int() / float division: rounds toward zero
TruncDiv(a, b) == IF a >= 0 THEN a \div b ELSE -((-a) \div b)
SeqMaxOf(s) == CHOOSE m \in { s[i] : i \in DOMAIN s } : \A i \in DOMAIN s : s[i] <= m
SeqMinOf(s) == CHOOSE m \in { s[i] : i \in DOMAIN s } : \A i \in DOMAIN s : s[i] >= m

\* ------------------------------------------------------------------- state
VARIABLES
    now,          \* dt_util.now(), seconds
    ctl,          \* ctl[c]: the attributes of SonClouTRVClimate c
    room_states,  \* hass.data[DOMAIN]["room_states"]: room key -> RoomPIDState
    act,          \* act[c]: degrees last delivered to the actuator of c
    sensor,       \* state of the external temperature sensor entity
    samples,      \* samples[c]: every sample c has read, as <<time, value>>
    pending,      \* exercise callbacks scheduled with async_call_later / sleeping
    timers,       \* update timers (async_track_point_in_time) not yet fired or cancelled
    rooms,        \* hass.data[DOMAIN]["rooms"]: room key -> the controllers registered
    created,      \* created[k]: RoomPIDState objects constructed so far for room key k
    inflight,     \* coroutines suspended at an awaited service call
    switch,       \* switch[c]: the AntiCalcificationSwitch of the config entry of c
    finished,     \* exercises whose last phase the last step ran
    out,          \* valve writes attempted by the last step, with their outcome
    calcs,        \* PID computations of the last step: inputs and value returned
    op            \* the operation the last step ran

vars == <<now, ctl, room_states, act, sensor, samples, pending, timers, rooms,
          created, inflight, switch, finished, out, calcs, op>>

\* All controllers of the model use the same temperature sensor: _room_key
room_key(c) == 1
RoomKeys == {1}

\* RoomPIDState.__init__
RoomPIDState ==
    [present |-> TRUE, integral_error |-> 0, prev_error |-> 0,
     last_calc_time |-> None, last_output |-> 0]
NoRoomPIDState == [RoomPIDState EXCEPT !.present = FALSE]

\* The part of the state the handlers of the controllers read and write
World == [ctl |-> ctl, room_states |-> room_states, act |-> act,
          samples |-> samples, pending |-> pending, timers |-> timers,
          rooms |-> rooms, created |-> created, inflight |-> inflight,
          switch |-> switch, finished |-> <<>>, out |-> <<>>, calcs |-> <<>>]

\* Outcome of one _async_set_valve_opening: both degrees delivered; the first
\* service call raises; the opening is delivered and the closing call raises
WriteOutcomes == {"ok", "fail_open", "fail_close"}

\* ------------------------------------------------------------ PID core
\* variant: a RoomPIDState is constructed on every call
_get_room_pid_state_always_creates(W, c) ==
    [W EXCEPT !.room_states[room_key(c)] = RoomPIDState,
              !.created[room_key(c)] = @ + 1]

\* _get_room_pid_state: the state of the room of c, constructed if there is none
_get_room_pid_state(W, c) ==
    IF W.room_states[room_key(c)].present THEN W
    ELSE [W EXCEPT !.room_states[room_key(c)] = RoomPIDState,
                   !.created[room_key(c)] = @ + 1]

\* variant: the gain is raised only above 1.8 K
gain_scale_one_band(abs_error) ==
    IF abs_error > 180 THEN 20 ELSE 10

gain_scale(abs_error) ==
    IF abs_error > 180 THEN 20
    ELSE IF abs_error > 120 THEN 17
    ELSE IF abs_error > 70 THEN 14
    ELSE IF abs_error > 30 THEN 12
    ELSE 10

\* p_term = kp * gain_scale * (0.8 if error < 0) * error
p_term(kp, error) ==
    kp * gain_scale(Abs(error)) * (IF error < 0 THEN 8 ELSE 10) * error * 10

\* max_integral = 100.0 / ki
max_integral(ki) == (100 * PCT) \div ki

\* variant: the gap since the last computation has no upper limit
integral_update_without_dt_limit(integral, error, dt, ki, hysteresis, heating_on) ==
    IF dt > 0 /\ heating_on /\ ki > 0
    THEN LET acc == IF Abs(error) < hysteresis THEN TruncDiv(integral * 9, 10)
                    ELSE IF Abs(error) <= 100 THEN integral + error * dt
                    ELSE integral
         IN Max2(-max_integral(ki), Min2(max_integral(ki), acc))
    ELSE integral

\* variant: a call at dt = 0 updates the integral like any other
integral_update_at_zero_dt(integral, error, dt, ki, hysteresis, heating_on) ==
    IF dt >= 0 /\ dt < INTEGRAL_MAX_DT /\ heating_on /\ ki > 0
    THEN LET acc == IF Abs(error) < hysteresis THEN TruncDiv(integral * 9, 10)
                    ELSE IF Abs(error) <= 100 THEN integral + error * dt
                    ELSE integral
         IN Max2(-max_integral(ki), Min2(max_integral(ki), acc))
    ELSE integral

\* variant: the integral accumulates above an error of 1.0 K too
integral_update_no_upper_band(integral, error, dt, ki, hysteresis, heating_on) ==
    IF dt > 0 /\ dt < INTEGRAL_MAX_DT /\ heating_on /\ ki > 0
    THEN LET acc == IF Abs(error) < hysteresis THEN TruncDiv(integral * 9, 10)
                    ELSE integral + error * dt
         IN Max2(-max_integral(ki), Min2(max_integral(ki), acc))
    ELSE integral

\* the integral after the update of one computation, before the sign-flip reset
integral_update(integral, error, dt, ki, hysteresis, heating_on) ==
    IF dt > 0 /\ dt < INTEGRAL_MAX_DT /\ heating_on /\ ki > 0
    THEN LET acc == IF Abs(error) < hysteresis THEN TruncDiv(integral * 9, 10)
                    ELSE IF Abs(error) <= 100 THEN integral + error * dt
                    ELSE integral
         IN Max2(-max_integral(ki), Min2(max_integral(ki), acc))
    ELSE integral

d_term(kd, error, prev_error, dt) ==
    IF dt > 1
    THEN IF kd * Abs(error - prev_error) > 100 * 100 * dt THEN 0
         ELSE TruncDiv(kd * (error - prev_error) * 1000, dt)
    ELSE 0

ff_term(ka, target_temp, outside_temperature) ==
    IF ka > 0 /\ outside_temperature # None /\ target_temp - outside_temperature > 0
    THEN ka * (target_temp - outside_temperature) * 100
    ELSE 0

\* variant: a warm room does not force the valve shut
hysteresis_override_never_closes(final_desired, error, hysteresis, max_valve_position) ==
    IF error > hysteresis /\ final_desired = 0 /\ max_valve_position > 0 THEN 1
    ELSE final_desired

\* variant: a cold room does not force a minimal opening
hysteresis_override_never_opens(final_desired, error, hysteresis, max_valve_position) ==
    IF error < -hysteresis THEN 0
    ELSE final_desired

\* the hysteresis override at the end of the computation
hysteresis_override(final_desired, error, hysteresis, max_valve_position) ==
    IF error < -hysteresis THEN 0
    ELSE IF error > hysteresis /\ final_desired = 0 /\ max_valve_position > 0 THEN 1
    ELSE final_desired

\* what one call of the computation read and returned
Computation(c, s, ran, error, dt, final_desired, opening) ==
    [c |-> c, ran |-> ran, error |-> error, dt |-> dt,
     final_desired |-> final_desired, opening |-> opening,
     hysteresis |-> s.hysteresis, max_valve_position |-> s.max_valve_position,
     current_temperature |-> s.current_temperature,
     target_temperature |-> s.target_temperature]

\* variant: the integral survives a change of sign of the error
pid_update_without_reset(W, c) ==
    LET s == W.ctl[c]
        error == s.target_temperature - s.current_temperature
        heating_on == s.hvac_mode = "heat"
        W1 == _get_room_pid_state(W, c)
        state == W1.room_states[room_key(c)]
        dt == IF state.last_calc_time = None THEN 0 ELSE now - state.last_calc_time
        p == p_term(s.kp, error)
        integral == integral_update(state.integral_error, error, dt, s.ki,
                                    s.hysteresis, heating_on)
        i == s.ki * integral
        d == d_term(s.kd, error, state.prev_error, dt)
        ff == ff_term(s.ka, s.target_temperature, s.outside_temperature)
        raw_output == p + i + d + ff
        desired_percent == Max2(0, Min2(100 * PCT, raw_output))
        final_desired == TruncDiv(desired_percent * s.max_valve_position, 100 * PCT)
        opening == hysteresis_override(final_desired, error, s.hysteresis,
                                       s.max_valve_position)
        newstate == [present |-> TRUE, integral_error |-> integral,
                     prev_error |-> error, last_calc_time |-> now,
                     last_output |-> desired_percent]
    IN [W |-> [W1 EXCEPT !.room_states[room_key(c)] = newstate,
                         !.ctl[c].integral_error = integral,
                         !.ctl[c].last_p = p, !.ctl[c].last_i = i,
                         !.ctl[c].last_d = d, !.ctl[c].last_ff = ff,
                         !.calcs = Append(@, Computation(c, s, TRUE, error, dt,
                                                         final_desired, opening))],
        opening |-> opening]

\* _calculate_desired_valve_opening after its input checks: the world after the
\* call and the value returned
pid_update(W, c) ==
    LET s == W.ctl[c]
        error == s.target_temperature - s.current_temperature
        heating_on == s.hvac_mode = "heat"
        W1 == _get_room_pid_state(W, c)
        state == W1.room_states[room_key(c)]
        dt == IF state.last_calc_time = None THEN 0 ELSE now - state.last_calc_time
        p == p_term(s.kp, error)
        integral == integral_update(state.integral_error, error, dt, s.ki,
                                    s.hysteresis, heating_on)
        i == s.ki * integral
        d == d_term(s.kd, error, state.prev_error, dt)
        integral2 == IF error * state.prev_error < 0 THEN 0 ELSE integral
        ff == ff_term(s.ka, s.target_temperature, s.outside_temperature)
        raw_output == p + i + d + ff
        desired_percent == Max2(0, Min2(100 * PCT, raw_output))
        final_desired == TruncDiv(desired_percent * s.max_valve_position, 100 * PCT)
        opening == hysteresis_override(final_desired, error, s.hysteresis,
                                       s.max_valve_position)
        newstate == [present |-> TRUE, integral_error |-> integral2,
                     prev_error |-> error, last_calc_time |-> now,
                     last_output |-> desired_percent]
    IN [W |-> [W1 EXCEPT !.room_states[room_key(c)] = newstate,
                         !.ctl[c].integral_error = integral2,
                         !.ctl[c].last_p = p, !.ctl[c].last_i = i,
                         !.ctl[c].last_d = d, !.ctl[c].last_ff = ff,
                         !.calcs = Append(@, Computation(c, s, TRUE, error, dt,
                                                         final_desired, opening))],
        opening |-> opening]

\* variant: the room state is fetched and time-stamped, and the stored terms
\* cleared, before the inputs are checked
_calculate_desired_valve_opening_checks_late(W, c) ==
    LET s == W.ctl[c] IN
    IF s.current_temperature = None \/ s.target_temperature = None
       \/ s.max_valve_position = 0
    THEN LET W1 == _get_room_pid_state(W, c)
         IN [W |-> [W1 EXCEPT !.room_states[room_key(c)].last_calc_time = now,
                              !.ctl[c].last_p = 0, !.ctl[c].last_i = 0,
                              !.ctl[c].last_d = 0, !.ctl[c].last_ff = 0,
                              !.calcs = Append(@, Computation(c, s, FALSE, 0, 0, 0, 0))],
             opening |-> 0]
    ELSE pid_update(W, c)

\* _calculate_desired_valve_opening: the world after the call and the value
\* returned
_calculate_desired_valve_opening(W, c) ==
    LET s == W.ctl[c] IN
    IF s.current_temperature = None \/ s.target_temperature = None
       \/ s.max_valve_position = 0
    THEN [W |-> [W EXCEPT !.calcs = Append(@, Computation(c, s, FALSE, 0, 0, 0, 0))],
          opening |-> 0]
    ELSE pid_update(W, c)

\* ------------------------------------------------------------ valve write
\* _async_set_valve_opening
_async_set_valve_opening(W, c, valve_opening, res) ==
    LET vo == Max2(0, Min2(100, valve_opening))
        vc == 100 - vo
        W1 == [W EXCEPT !.out = Append(@, [c |-> c, opening |-> vo, res |-> res])]
    IN CASE res = "fail_open" -> W1
         [] res = "fail_close" -> [W1 EXCEPT !.act[c].opening = vo]
         [] OTHER ->
              [W1 EXCEPT !.act[c] = [opening |-> vo, closing |-> vc],
                         !.ctl[c].last_set_valve_opening = vo,
                         !.ctl[c].last_valve_update = now,
                         !.ctl[c].valve_position = vo]

\* ------------------------------------------------------ adaptive scheduler
\* Python truthiness of an optional float: None and 0.0 are false
Truthy(x) == x # None /\ x # 0

\* variant: the interval is relaxed during a valve exercise too
next_interval_ignores_exercise(s) ==
    IF Truthy(s.current_temperature) /\ Truthy(s.target_temperature)
       /\ Abs(s.target_temperature - s.current_temperature) < 20
       /\ s.control_mode = "pid"
    THEN STABLE_INTERVAL
    ELSE s.min_valve_update_interval

\* the interval _async_schedule_next_update chooses
next_interval(s) ==
    IF Truthy(s.current_temperature) /\ Truthy(s.target_temperature)
       /\ Abs(s.target_temperature - s.current_temperature) < 20
       /\ ~s.is_exercising /\ s.control_mode = "pid"
    THEN STABLE_INTERVAL
    ELSE s.min_valve_update_interval

\* a timer registration: the controller whose control cycle it runs, and when
Timer(c, due) == [c |-> c, due |-> due]

\* q without its first occurrence of x
RemoveOne(q, x) ==
    IF \E i \in DOMAIN q : q[i] = x
    THEN LET i == CHOOSE i \in DOMAIN q : q[i] = x /\ \A j \in 1..(i - 1) : q[j] # x
         IN SubSeq(q, 1, i - 1) \o SubSeq(q, i + 1, Len(q))
    ELSE q

\* if self._update_timer: self._update_timer(); self._update_timer = None
\* update_timer is the handle: the due time of the timer it cancels, or None
cancel_update_timer(W, c) ==
    IF W.ctl[c].update_timer = None THEN W
    ELSE [W EXCEPT !.timers = RemoveOne(@, Timer(c, W.ctl[c].update_timer)),
                   !.ctl[c].update_timer = None]

\* variant: the new timer is set without cancelling the pending one
_async_schedule_next_update_without_cancel(W, c) ==
    LET due == now + next_interval(W.ctl[c])
    IN [W EXCEPT !.timers = Append(@, Timer(c, due)),
                 !.ctl[c].update_timer = due]

\* _async_schedule_next_update: cancels the pending timer and sets a new one
_async_schedule_next_update(W, c) ==
    LET W1 == cancel_update_timer(W, c)
        due == now + next_interval(W1.ctl[c])
    IN [W1 EXCEPT !.timers = Append(@, Timer(c, due)),
                  !.ctl[c].update_timer = due]

\* variant: the freeze ends only when the last three samples are stable
_is_window_freeze_over_without_timeout(s) ==
    IF ~s.window_freeze_active THEN TRUE
    ELSE IF Len(s.temp_history) >= 3
            /\ LET recent == SubSeq(s.temp_history, Len(s.temp_history) - 2,
                                    Len(s.temp_history))
               IN SeqMaxOf(recent) - SeqMinOf(recent) <= s.window_stable_band
         THEN TRUE
    ELSE FALSE

\* ----------------------------------------------------------- control cycle
_is_window_freeze_over(s) ==
    IF ~s.window_freeze_active THEN TRUE
    ELSE IF s.window_freeze_start # None
            /\ now - s.window_freeze_start > s.window_max_freeze THEN TRUE
    ELSE IF Len(s.temp_history) >= 3
            /\ LET recent == SubSeq(s.temp_history, Len(s.temp_history) - 2,
                                    Len(s.temp_history))
               IN SeqMaxOf(recent) - SeqMinOf(recent) <= s.window_stable_band
         THEN TRUE
    ELSE FALSE

\* the part of _async_control_heating after the exercise and freeze checks
control_heating_body(W, c, res) ==
    IF W.ctl[c].hvac_mode = "off"
    THEN _async_schedule_next_update(W, c)
    ELSE LET r == _calculate_desired_valve_opening(W, c)
             s == r.W.ctl[c]
             should_write ==
                 IF s.last_valve_update = None THEN TRUE
                 ELSE now - s.last_valve_update >= s.min_valve_update_interval
                      /\ r.opening # s.last_set_valve_opening
             W2 == IF should_write
                   THEN _async_set_valve_opening(r.W, c, r.opening, res)
                   ELSE r.W
         IN _async_schedule_next_update(W2, c)

\* variant: the cycle skipped for an exercise returns without scheduling
_async_control_heating_exercise_returns(W, c, res) ==
    IF W.ctl[c].is_exercising THEN W
    ELSE IF W.ctl[c].window_freeze_active
    THEN IF _is_window_freeze_over(W.ctl[c])
         THEN control_heating_body(
                  [W EXCEPT !.ctl[c].window_freeze_active = FALSE], c, res)
         ELSE _async_schedule_next_update(W, c)
    ELSE control_heating_body(W, c, res)

\* _async_control_heating
_async_control_heating(W, c, res) ==
    IF W.ctl[c].is_exercising THEN _async_schedule_next_update(W, c)
    ELSE IF W.ctl[c].window_freeze_active
    THEN IF _is_window_freeze_over(W.ctl[c])
         THEN control_heating_body(
                  [W EXCEPT !.ctl[c].window_freeze_active = FALSE], c, res)
         ELSE _async_schedule_next_update(W, c)
    ELSE control_heating_body(W, c, res)

\* variant: only the value list is trimmed at the bound
_async_update_temp_trims_values_only(W, c, state) ==
    IF state = None THEN W
    ELSE LET s == W.ctl[c]
             h == Append(s.temp_history, state)
             t == Append(s.temp_time_history, now)
             over == Len(h) > HISTORY_MAX
         IN [W EXCEPT !.samples[c] = Append(@, <<now, state>>),
                      !.ctl[c].current_temperature = state,
                      !.ctl[c].temp_history = IF over THEN Tail(h) ELSE h,
                      !.ctl[c].temp_time_history = t]

\* ------------------------------------------------------- temperature input
\* _async_update_temp: reads the sensor entity, records the sample
_async_update_temp(W, c, state) ==
    IF state = None THEN W
    ELSE LET s == W.ctl[c]
             h == Append(s.temp_history, state)
             t == Append(s.temp_time_history, now)
             over == Len(h) > HISTORY_MAX
         IN [W EXCEPT !.samples[c] = Append(@, <<now, state>>),
                      !.ctl[c].current_temperature = state,
                      !.ctl[c].temp_history = IF over THEN Tail(h) ELSE h,
                      !.ctl[c].temp_time_history = IF over THEN Tail(t) ELSE t]

\* variant: only the single-step drop is tested
sudden_drop_detected_single_step(s, old_temp, new_temp) ==
    new_temp - old_temp <= -s.window_drop_threshold

\* the sudden-drop test of _async_sensor_changed, on valid old and new states
sudden_drop_detected(s, old_temp, new_temp) ==
    \/ new_temp - old_temp <= -s.window_drop_threshold
    \/ /\ s.temp_history # <<>> /\ s.temp_time_history # <<>>
       /\ LET n == Min2(Len(s.temp_history), Len(s.temp_time_history))
              recent == { i \in 1..n :
                            s.temp_time_history[i] >= now - WINDOW_DROP_WINDOW }
          IN /\ recent # {}
             /\ \E i \in recent :
                   /\ \A j \in recent : s.temp_history[j] <= s.temp_history[i]
                   /\ s.temp_history[i] - new_temp >= s.window_drop_threshold

\* _async_sensor_changed for the state change old_state -> new_state
_async_sensor_changed(W, c, old_state, new_state, res1, res2) ==
    LET W1 == _async_update_temp(W, c, new_state)
        valid == old_state # None /\ new_state # None
        should_trigger_immediate ==
            IF valid THEN Abs(new_state - old_state) >= 10 ELSE TRUE
        drop == valid /\ sudden_drop_detected(W1.ctl[c], old_state, new_state)
        W2 == IF drop
              THEN LET F == [W1 EXCEPT !.ctl[c].window_freeze_active = TRUE,
                                       !.ctl[c].window_freeze_start = now]
                   IN IF F.ctl[c].last_set_valve_opening # 0
                      THEN _async_set_valve_opening(F, c, 0, res1)
                      ELSE F
              ELSE W1
    IN IF should_trigger_immediate
       THEN _async_control_heating(cancel_update_timer(W2, c), c, res2)
       ELSE W2

\* ------------------------------------------------------------------ setters
\* async_set_temperature
async_set_temperature(W, c, temperature, res) ==
    LET s == W.ctl[c]
        preload ==
            /\ Truthy(s.current_temperature)
            /\ temperature - s.current_temperature > 100
            /\ s.control_mode = "pid"
            /\ s.ki > 0
            /\ s.integral_error < (20 * PCT) \div s.ki
        W1 == [W EXCEPT !.ctl[c].target_temperature = temperature,
                        !.ctl[c].last_valve_update = None,
                        !.ctl[c].integral_error =
                            IF preload THEN (20 * PCT) \div s.ki ELSE @]
    IN _async_control_heating(cancel_update_timer(W1, c), c, res)

\* async_set_hvac_mode
async_set_hvac_mode(W, c, hvac_mode, res) ==
    _async_control_heating([W EXCEPT !.ctl[c].hvac_mode = hvac_mode], c, res)

\* async_set_preset_mode
async_set_preset_mode(W, c, preset_mode, res) ==
    IF preset_mode \notin PresetModes THEN W
    ELSE LET W1 == [W EXCEPT !.ctl[c].preset_mode = preset_mode,
                             !.ctl[c].max_valve_position =
                                 VALVE_OPENING_STEPS(preset_mode)]
             r == _calculate_desired_valve_opening(W1, c)
         IN IF r.opening # r.W.ctl[c].last_set_valve_opening
            THEN _async_set_valve_opening(r.W, c, r.opening, res)
            ELSE r.W

\* SonClouTRVNumber.async_set_native_value, by setting id
NumberSettings == {"hysteresis", "min_valve_update_interval", "kp", "ki", "kd", "ka"}

\* native_min_value .. native_max_value of the number entities, in the units of
\* the model
NumberRange(setting_id) ==
    CASE setting_id = "hysteresis" -> 10..200
      [] setting_id = "min_valve_update_interval" -> 1..60
      [] setting_id = "kp" -> 1..100
      [] setting_id = "ki" -> 0..500
      [] setting_id = "kd" -> 0..2000
      [] setting_id = "ka" -> 0..100

async_set_native_value(W, c, setting_id, value) ==
    CASE setting_id = "hysteresis" -> [W EXCEPT !.ctl[c].hysteresis = value]
      [] setting_id = "min_valve_update_interval" ->
             [W EXCEPT !.ctl[c].min_valve_update_interval = value * 60]
      [] setting_id = "kp" -> [W EXCEPT !.ctl[c].kp = value]
      [] setting_id = "ki" -> [W EXCEPT !.ctl[c].ki = value]
      [] setting_id = "kd" -> [W EXCEPT !.ctl[c].kd = value]
      [] setting_id = "ka" -> [W EXCEPT !.ctl[c].ka = value]
      [] OTHER -> W

\* ----------------------------------------------------------- valve exercise
\* async_call_later(hass, delay, action, args) and asyncio.sleep(delay) are taken
\* to run the next phase with the given arguments delay seconds later, as the
\* calling code expects.
\* A scheduled exercise phase: who runs it, which step, when, and its arguments;
\* writes is the history of the valve writes of this exercise, <<time, opening>>
Callback(c, src, step, due, original_position, original_preset, writes) ==
    [c |-> c, src |-> src, step |-> step, due |-> due,
     original_position |-> original_position, original_preset |-> original_preset,
     writes |-> writes]

\* the valve write a handler attempted last, as <<time, opening>>
last_write(W) == <<now, W.out[Len(W.out)].opening>>

\* variant: the position is captured after the opening write instead of before
async_trigger_valve_exercise_captures_late(W, c, res) ==
    IF W.ctl[c].is_exercising THEN W
    ELSE LET W1 == _async_set_valve_opening(
                       [W EXCEPT !.ctl[c].is_exercising = TRUE], c, 100, res)
         IN [W1 EXCEPT !.pending = Append(@,
                Callback(c, "climate", 2, now + EXERCISE_DWELL,
                         W1.ctl[c].valve_position, W1.ctl[c].preset_mode,
                         <<last_write(W1)>>))]

\* SonClouTRVClimate.async_trigger_valve_exercise
async_trigger_valve_exercise(W, c, res) ==
    IF W.ctl[c].is_exercising THEN W
    ELSE LET s == W.ctl[c]
             W1 == _async_set_valve_opening(
                       [W EXCEPT !.ctl[c].is_exercising = TRUE], c, 100, res)
         IN [W1 EXCEPT !.pending = Append(@,
                Callback(c, "climate", 2, now + EXERCISE_DWELL,
                         s.valve_position, s.preset_mode, <<last_write(W1)>>))]

\* ValveExerciseButton.async_press
async_press(W, c, res) ==
    LET s == W.ctl[c]
        W1 == _async_set_valve_opening(W, c, 100, res)
    IN [W1 EXCEPT !.pending = Append(@,
           Callback(c, "button", 2, now + EXERCISE_DWELL,
                    s.valve_position, s.preset_mode, <<last_write(W1)>>))]

\* AntiCalcificationSwitch._async_exercise_valve up to its first sleep
_async_exercise_valve(W, c, res) ==
    LET s == W.ctl[c]
        W1 == _async_set_valve_opening(W, c, 100, res)
    IN [W1 EXCEPT !.pending = Append(@,
           Callback(c, "switch", 2, now + EXERCISE_DWELL,
                    s.valve_position, s.preset_mode, <<last_write(W1)>>))]

\* pending without its i-th callback
Without(q, i) == SubSeq(q, 1, i - 1) \o SubSeq(q, i + 1, Len(q))

\* step 2 of the three implementations: close, then schedule step 3
_async_exercise_step_2(W, i, res) ==
    LET cb == W.pending[i]
        W1 == _async_set_valve_opening(
                  [W EXCEPT !.pending = Without(@, i)], cb.c, 0, res)
    IN [W1 EXCEPT !.pending = Append(@,
           [cb EXCEPT !.step = 3, !.due = now + EXERCISE_DWELL,
                      !.writes = Append(@, last_write(W1))])]

\* variant: step 3 writes the position the entity tracks at that moment instead
\* of the captured one
_async_exercise_step_3_keeps_position(W, i, res, res2) ==
    LET cb == W.pending[i]
        W1 == _async_set_valve_opening(
                  [W EXCEPT !.pending = Without(@, i)], cb.c,
                  W.ctl[cb.c].valve_position, res)
        W2 == [W1 EXCEPT !.ctl[cb.c].preset_mode = cb.original_preset,
                         !.switch[cb.c].last_exercise =
                             IF cb.src = "switch" THEN now ELSE @,
                         !.finished = Append(@,
                             [cb EXCEPT !.writes = Append(@, last_write(W1))])]
    IN IF cb.src = "climate"
       THEN _async_schedule_next_update(
                [W2 EXCEPT !.ctl[cb.c].is_exercising = FALSE], cb.c)
       ELSE _async_control_heating(W2, cb.c, res2)

\* step 3: restore the captured position and preset; the climate entity clears
\* is_exercising and schedules the next update, the button and the switch run a
\* control cycle, the switch after setting _last_exercise
_async_exercise_step_3(W, i, res, res2) ==
    LET cb == W.pending[i]
        W1 == _async_set_valve_opening(
                  [W EXCEPT !.pending = Without(@, i)], cb.c,
                  cb.original_position, res)
        W2 == [W1 EXCEPT !.ctl[cb.c].preset_mode = cb.original_preset,
                         !.switch[cb.c].last_exercise =
                             IF cb.src = "switch" THEN now ELSE @,
                         !.finished = Append(@,
                             [cb EXCEPT !.writes = Append(@, last_write(W1))])]
    IN IF cb.src = "climate"
       THEN _async_schedule_next_update(
                [W2 EXCEPT !.ctl[cb.c].is_exercising = FALSE], cb.c)
       ELSE _async_control_heating(W2, cb.c, res2)

\* AntiCalcificationSwitch.__init__; since and starts keep when the periodic
\* check was registered and when the check started an exercise
InitSwitch ==
    [added |-> FALSE, is_on |-> TRUE, last_exercise |-> None, listener |-> None,
     since |-> None, starts |-> <<>>]

\* -------------------------------------------------------------------- Init
\* SonClouTRVClimate.__init__ with the default configuration
InitCtl ==
    [added |-> FALSE,
     current_temperature |-> None,
     target_temperature |-> DEFAULT_TARGET_TEMP,
     outside_temperature |-> None,
     hvac_mode |-> "heat",
     preset_mode |-> "2",
     max_valve_position |-> VALVE_OPENING_STEPS("2"),
     control_mode |-> "pid",
     kp |-> DEFAULT_KP, ki |-> DEFAULT_KI, kd |-> DEFAULT_KD, ka |-> DEFAULT_KA,
     hysteresis |-> DEFAULT_HYSTERESIS,
     min_valve_update_interval |-> DEFAULT_MIN_VALVE_UPDATE_INTERVAL,
     valve_position |-> 0,
     is_exercising |-> FALSE,
     last_valve_update |-> None,
     update_timer |-> None,
     last_set_valve_opening |-> -1,
     integral_error |-> 0,
     last_p |-> 0, last_i |-> 0, last_d |-> 0, last_ff |-> 0,
     window_freeze_active |-> FALSE,
     window_freeze_start |-> None,
     window_drop_threshold |-> DEFAULT_WINDOW_DROP_THRESHOLD,
     window_stable_band |-> DEFAULT_WINDOW_STABLE_BAND,
     window_max_freeze |-> DEFAULT_WINDOW_MAX_FREEZE,
     temp_history |-> <<>>,
     temp_time_history |-> <<>>]

\* the state after construction, the sensor entity in one of the given states
InitWith(states) ==
    /\ now = 0
    /\ ctl = [c \in Ctrl |-> InitCtl]
    /\ room_states = [r \in RoomKeys |-> NoRoomPIDState]
    /\ act = [c \in Ctrl |-> [opening |-> None, closing |-> None]]
    /\ sensor \in states
    /\ samples = [c \in Ctrl |-> <<>>]
    /\ pending = <<>>
    /\ timers = <<>>
    /\ rooms = [r \in RoomKeys |-> <<>>]
    /\ created = [r \in RoomKeys |-> 0]
    /\ inflight = <<>>
    /\ switch = [c \in Ctrl |-> InitSwitch]
    /\ finished = <<>>
    /\ out = <<>>
    /\ calcs = <<>>
    /\ op = [name |-> "init", c |-> 0]

\* the step to the world W, run as operation name of controller c
Commit(W, name, c) ==
    /\ ctl' = W.ctl
    /\ room_states' = W.room_states
    /\ act' = W.act
    /\ samples' = W.samples
    /\ pending' = W.pending
    /\ timers' = W.timers
    /\ rooms' = W.rooms
    /\ created' = W.created
    /\ inflight' = W.inflight
    /\ switch' = W.switch
    /\ finished' = W.finished
    /\ out' = W.out
    /\ calcs' = W.calcs
    /\ op' = [name |-> name, c |-> c]

\* ----------------------------------------------------------------- actions
\* _async_read_trv_state: the valve position the TRV entity reports, if any
_async_read_trv_state(W, c, position) ==
    IF position = None THEN W ELSE [W EXCEPT !.ctl[c].valve_position = position]

\* async_added_to_hass: room registration, first timer, TRV state, first
\* sample, initial valve opening
async_added_to_hass(W, c, position, res) ==
    LET W0 == [W EXCEPT !.ctl[c].added = TRUE,
                        !.rooms[room_key(c)] =
                            IF \E i \in DOMAIN @ : @[i] = c THEN @ ELSE Append(@, c)]
        W1 == _async_schedule_next_update(W0, c)
        W2 == _async_read_trv_state(W1, c, position)
        W3 == _async_update_temp(W2, c, sensor)
        r == _calculate_desired_valve_opening(W3, c)
    IN _async_set_valve_opening(r.W, c, r.opening, res)

\* the TRV entity reports no valve position
NoPosition == {None}

AddedToHass(c, positions) ==
    /\ ~ctl[c].added
    /\ \E position \in positions, res \in WriteOutcomes :
          Commit(async_added_to_hass(World, c, position, res), "added", c)
    /\ UNCHANGED <<now, sensor>>

\* the temperature sensor entity changes to one of the given states; at most
\* limit samples are read
SensorChanged(c, states, limit) ==
    /\ ctl[c].added
    /\ \E new_state \in states \ {sensor}, res1, res2 \in WriteOutcomes :
          /\ new_state # None => Len(samples[c]) < limit
          /\ sensor' = new_state
          /\ Commit(_async_sensor_changed(World, c, sensor, new_state, res1, res2),
                    "sensor", c)
    /\ UNCHANGED now

\* the i-th timer fires: it is no longer pending, and the handle that refers to
\* it cancels nothing any more
timer_fired(W, i) ==
    LET c == W.timers[i].c
    IN [W EXCEPT !.timers = Without(@, i),
                 !.ctl[c].update_timer =
                     IF @ = W.timers[i].due THEN None ELSE @]

\* the update timer (async_track_point_in_time) fires: one control cycle
UpdateTimerFires(c) ==
    /\ ctl[c].added
    /\ \E i \in DOMAIN timers, res \in WriteOutcomes :
          /\ timers[i] = Timer(c, now)
          /\ Commit(_async_control_heating(timer_fired(World, i), c, res),
                    "timer", c)
    /\ UNCHANGED <<now, sensor>>

SetTemperature(c, temperatures) ==
    /\ ctl[c].added
    /\ \E temperature \in temperatures, res \in WriteOutcomes :
          Commit(async_set_temperature(World, c, temperature, res), "set_temperature", c)
    /\ UNCHANGED <<now, sensor>>

SetHvacMode(c) ==
    /\ ctl[c].added
    /\ \E hvac_mode \in {"heat", "off"}, res \in WriteOutcomes :
          Commit(async_set_hvac_mode(World, c, hvac_mode, res), "set_hvac_mode", c)
    /\ UNCHANGED <<now, sensor>>

SetPresetMode(c, presets) ==
    /\ ctl[c].added
    /\ \E preset_mode \in presets, res \in WriteOutcomes :
          Commit(async_set_preset_mode(World, c, preset_mode, res), "set_preset_mode", c)
    /\ UNCHANGED <<now, sensor>>

\* a number entity is set: values[setting_id] are the values tried
SetNativeValue(c, values) ==
    /\ ctl[c].added
    /\ \E setting_id \in DOMAIN values :
          \E value \in values[setting_id] :
             Commit(async_set_native_value(World, c, setting_id, value), setting_id, c)
    /\ UNCHANGED <<now, sensor>>

\* _async_outside_sensor_changed
OutsideSensorChanged(c, temps) ==
    /\ ctl[c].added
    /\ \E temp \in temps :
          Commit([World EXCEPT !.ctl[c].outside_temperature = temp], "outside", c)
    /\ UNCHANGED <<now, sensor>>

\* _async_valve_changed: the TRV reports its position
ValveChanged(c, positions) ==
    /\ ctl[c].added
    /\ \E position \in positions :
          Commit([World EXCEPT !.ctl[c].valve_position = position], "valve", c)
    /\ UNCHANGED <<now, sensor>>

\* the sensor entity that the controllers cs share changes state: the listener
\* of every added one of them runs, in either order; res[c] is the outcome of
\* the valve write of the handler of c
RoomSensorChanged(cs, states, limit) ==
    /\ \E c \in cs : ctl[c].added
    /\ \E new_state \in states \ {sensor}, first \in cs, res \in [cs -> WriteOutcomes] :
          LET handler(W, c) ==
                  IF W.ctl[c].added
                  THEN _async_sensor_changed(W, c, sensor, new_state, res[c], res[c])
                  ELSE W
              RECURSIVE run(_, _)
              run(W, todo) ==
                  IF todo = {} THEN W
                  ELSE LET c == IF first \in todo THEN first
                                ELSE CHOOSE x \in todo : TRUE
                       IN run(handler(W, c), todo \ {c})
          IN /\ \A c \in cs : ctl[c].added => Len(samples[c]) < limit
             /\ sensor' = new_state
             /\ Commit(run(World, cs), "sensor", first)
    /\ UNCHANGED now

\* the entity constructed for the config entry of s after a reload: __init__,
\* then async_added_to_hass restores mode, setpoint and integral from the last
\* state written
restored(s) ==
    [InitCtl EXCEPT !.hvac_mode = s.hvac_mode,
                    !.target_temperature = s.target_temperature,
                    !.integral_error = s.integral_error]

\* async_will_remove_from_hass: cancels the timer, leaves the room registry
async_will_remove_from_hass(W, c) ==
    LET W1 == cancel_update_timer(W, c)
        k == room_key(c)
    IN [W1 EXCEPT !.rooms[k] = RemoveOne(@, c),
                  !.ctl[c] = restored(@),
                  !.samples[c] = <<>>]

\* the config entry of c is unloaded
WillRemoveFromHass(c) ==
    /\ ctl[c].added
    /\ Commit(async_will_remove_from_hass(World, c), "remove", c)
    /\ UNCHANGED <<now, sensor>>

TriggerValveExercise(c) ==
    /\ ctl[c].added
    /\ Len(pending) < MaxPending
    /\ \E res \in WriteOutcomes :
          Commit(async_trigger_valve_exercise(World, c, res), "trigger_exercise", c)
    /\ UNCHANGED <<now, sensor>>

ButtonPress(c) ==
    /\ ctl[c].added
    /\ Len(pending) < MaxPending
    /\ \E res \in WriteOutcomes :
          Commit(async_press(World, c, res), "press", c)
    /\ UNCHANGED <<now, sensor>>

SwitchExercise(c) ==
    /\ ctl[c].added
    /\ Len(pending) < MaxPending
    /\ \E res \in WriteOutcomes :
          Commit(_async_exercise_valve(World, c, res), "switch_exercise", c)
    /\ UNCHANGED <<now, sensor>>

\* the operation that runs phase step of an exercise started by src
step_op(src, step) ==
    CASE src = "climate" -> IF step = 2 THEN "climate_step_2" ELSE "climate_step_3"
      [] src = "button" -> IF step = 2 THEN "button_step_2" ELSE "button_step_3"
      [] OTHER -> IF step = 2 THEN "switch_step_2" ELSE "switch_step_3"

\* a scheduled exercise phase becomes due
ExerciseStep2 ==
    /\ \E i \in DOMAIN pending, res \in WriteOutcomes :
          /\ pending[i].step = 2 /\ pending[i].due = now
          /\ Commit(_async_exercise_step_2(World, i, res),
                    step_op(pending[i].src, 2), pending[i].c)
    /\ UNCHANGED <<now, sensor>>

ExerciseStep3 ==
    /\ \E i \in DOMAIN pending, res, res2 \in WriteOutcomes :
          /\ pending[i].step = 3 /\ pending[i].due = now
          /\ Commit(_async_exercise_step_3(World, i, res, res2),
                    step_op(pending[i].src, 3), pending[i].c)
    /\ UNCHANGED <<now, sensor>>

\* time passes by one of the given steps, up to the next timer or callback due
Tick(steps, limit) ==
    /\ \E d \in steps :
          /\ now + d <= limit
          /\ \A i \in DOMAIN timers : timers[i].due >= now + d
          /\ \A i \in DOMAIN pending : pending[i].due >= now + d
          /\ now' = now + d
    /\ finished' = <<>>
    /\ out' = <<>>
    /\ calcs' = <<>>
    /\ op' = [name |-> "tick", c |-> 0]
    /\ UNCHANGED <<ctl, room_states, act, sensor, samples, pending, timers, rooms,
                   created, inflight, switch>>

\* ------------------------------------------------------ the PID computation
\* Inputs of the computation: room temperatures around the setpoint 21.5, the
\* gains at the ends of the ranges of their number entities, the outside
\* sensor absent or at -5.0, the room state fresh or left by an earlier
\* computation at time 0, the time since then 0 s, 1 s, 2 s or an hour.
PidTemps == {2000, 2130, 2140, 2170, 2250}
PidKp == {5, 100}
PidKi == {0, 4}
PidKd == {0, 2000}
PidWeather == {<<0, None>>, <<100, 0 - 500>>}
PidIntegrals == {0 - 2500000, 0, 2500000}
PidPrevErrors == {0 - 100, 150}
PidPresets == {"*", "1"}
PidNow == {0, 1, 2, 3600}
PidTick == {600}
PidMaxTime == 602

PidRoomStates ==
    {NoRoomPIDState}
    \cup { [present |-> TRUE, integral_error |-> i, prev_error |-> e,
            last_calc_time |-> 0, last_output |-> 0] :
           i \in PidIntegrals, e \in PidPrevErrors }

InitPid ==
    /\ now \in PidNow
    /\ sensor \in PidTemps
    /\ \E kp \in PidKp, ki \in PidKi, kd \in PidKd, w \in PidWeather :
          ctl = [c \in Ctrl |->
                    [InitCtl EXCEPT !.added = TRUE,
                                    !.current_temperature = sensor,
                                    !.temp_history = <<sensor>>,
                                    !.temp_time_history = <<0>>,
                                    !.kp = kp, !.ki = ki, !.kd = kd,
                                    !.ka = w[1], !.outside_temperature = w[2]]]
    /\ room_states \in [RoomKeys -> PidRoomStates]
    /\ samples = [c \in Ctrl |-> << <<0, sensor>> >>]
    /\ act = [c \in Ctrl |-> [opening |-> None, closing |-> None]]
    /\ pending = <<>>
    /\ timers = <<>>
    /\ rooms = [r \in RoomKeys |-> <<1>>]
    /\ created = [r \in RoomKeys |-> IF room_states[r].present THEN 1 ELSE 0]
    /\ inflight = <<>>
    /\ switch = [c \in Ctrl |-> InitSwitch]
    /\ finished = <<>>
    /\ out = <<>>
    /\ calcs = <<>>
    /\ op = [name |-> "init", c |-> 0]

NextPid ==
    \/ \E c \in Ctrl : SetPresetMode(c, PidPresets)
    \/ Tick(PidTick, PidMaxTime)

SpecPid == InitPid /\ [][NextPid]_vars

\* C1: every computation that ran with both temperatures present,
\* max_valve_position > 0 and target - current > hysteresis returned an opening
\* of at least 1.
C1_ColdRoomOpensValve ==
    \A k \in DOMAIN calcs :
        (/\ calcs[k].current_temperature # None
         /\ calcs[k].target_temperature # None
         /\ calcs[k].max_valve_position > 0
         /\ calcs[k].target_temperature - calcs[k].current_temperature
                > calcs[k].hysteresis)
        => calcs[k].opening >= 1

\* a computation whose scaled PID output rounded to 0 in a cold room returned 1
C1_Witness ==
    \E k \in DOMAIN calcs :
        /\ calcs[k].ran
        /\ calcs[k].target_temperature - calcs[k].current_temperature
               > calcs[k].hysteresis
        /\ calcs[k].max_valve_position > 0
        /\ calcs[k].final_desired = 0
        /\ calcs[k].opening = 1

\* C2: every computation that ran with both temperatures present and
\* target - current < -hysteresis returned the opening 0.
C2_WarmRoomClosesValve ==
    \A k \in DOMAIN calcs :
        (/\ calcs[k].current_temperature # None
         /\ calcs[k].target_temperature # None
         /\ calcs[k].target_temperature - calcs[k].current_temperature
                < 0 - calcs[k].hysteresis)
        => calcs[k].opening = 0

\* a computation whose integral and feed-forward terms asked for an open valve in
\* a warm room returned 0
C2_Witness ==
    \E k \in DOMAIN calcs :
        /\ calcs[k].ran
        /\ calcs[k].target_temperature - calcs[k].current_temperature
               < 0 - calcs[k].hysteresis
        /\ calcs[k].final_desired > 0
        /\ calcs[k].opening = 0

\* the time since the last computation of the room is not inside (0, 3600)
StaleTimeDelta(dt) == ~(dt > 0 /\ dt < 3600)

\* C16 as stated: a computation whose dt is outside (0, 3600) leaves
\* RoomPIDState.integral_error as it was.
C16_StaleDtKeepsIntegral ==
    [][\A k \in DOMAIN calcs' :
          (calcs'[k].ran /\ StaleTimeDelta(calcs'[k].dt))
          => room_states'[room_key(calcs'[k].c)].integral_error
                = room_states[room_key(calcs'[k].c)].integral_error]_vars

\* C16 amended: a computation whose dt is outside (0, 3600) does not decay,
\* accumulate or clamp the integral: integral_error keeps its value, except that
\* an error of the opposite sign of prev_error resets it to 0.  The terms are
\* still computed: the I term from the integral as it was, P from the error, D
\* and FF, and their clamped sum is stored as the room's last output.
C16_StaleDtSkipsIntegralUpdate ==
    [][\A k \in DOMAIN calcs' :
          (calcs'[k].ran /\ StaleTimeDelta(calcs'[k].dt))
          => LET c == calcs'[k].c
                 old == room_states[room_key(c)]
                 new == room_states'[room_key(c)]
                 s == ctl'[c]
             IN /\ new.integral_error =
                      IF calcs'[k].error * old.prev_error < 0 THEN 0
                      ELSE old.integral_error
                /\ new.prev_error = calcs'[k].error
                /\ s.last_i = s.ki * old.integral_error
                /\ s.last_p = p_term(s.kp, calcs'[k].error)
                /\ calcs'[k].dt <= 0 => s.last_d = 0
                /\ (calcs'[k].dt >= 3600 /\ s.kd > 0
                    /\ s.kd * Abs(calcs'[k].error - old.prev_error)
                          <= 100 * 100 * calcs'[k].dt)
                   => s.last_d * (calcs'[k].error - old.prev_error) >= 0
                /\ s.last_ff = ff_term(s.ka, s.target_temperature,
                                       s.outside_temperature)
                /\ new.last_output =
                      Max2(0, Min2(100 * PCT,
                                   s.last_p + s.last_i + s.last_d + s.last_ff))]_vars

\* an hour after the last computation, with an error the integral would have
\* accumulated and no change of sign, the learned integral is kept
C16_Witness ==
    /\ calcs # <<>>
    /\ calcs[1].ran
    /\ calcs[1].dt = 3600
    /\ calcs[1].error = 20
    /\ ctl[1].ki = 4
    /\ room_states[1].integral_error = 2500000
    /\ ctl[1].last_i = 100 * PCT

\* the computations of a step that got past the input checks, in order
RanCalcs(q) == SelectSeq(q, LAMBDA r : r.ran)

\* C23: a computation at dt = 0 that follows, in the previous step, a computation
\* of the same controller with the same inputs yields the same p term, leaves
\* integral_error as that computation left it and has a d term of 0.
C23_SecondCallAtZeroDt ==
    [][\A c \in Ctrl :
          LET before == RanCalcs(calcs)
              after == RanCalcs(calcs')
          IN (/\ before # <<>> /\ after # <<>>
              /\ [after[1] EXCEPT !.dt = 0, !.final_desired = 0, !.opening = 0]
                 = [before[Len(before)] EXCEPT !.dt = 0, !.final_desired = 0,
                                               !.opening = 0]
              /\ after[1].c = c /\ after[1].dt = 0
              /\ ctl'[c].kp = ctl[c].kp /\ ctl'[c].ki = ctl[c].ki
              /\ ctl'[c].kd = ctl[c].kd)
             => /\ ctl'[c].last_p = ctl[c].last_p
                /\ room_states'[room_key(c)].integral_error
                      = room_states[room_key(c)].integral_error
                /\ ctl'[c].last_d = 0]_vars

\* one second after the state was written: a computation 0.1 K below the
\* setpoint decayed the full integral to 22500 K s, the next one at the same
\* instant kept it
C23_Witness ==
    /\ now = 1
    /\ Len(RanCalcs(calcs)) = 1
    /\ RanCalcs(calcs)[1].dt = 0 /\ RanCalcs(calcs)[1].error = 10
    /\ ctl[1].ki = 4 /\ ctl[1].kd = 2000
    /\ room_states[1].integral_error = 2250000
    /\ ctl[1].last_d = 0

\* the integral the update of C28 leaves, before the clamp
IntegralBand(integral, error, dt, hysteresis) ==
    IF Abs(error) < hysteresis THEN TruncDiv(integral * 9, 10)
    ELSE IF Abs(error) <= 100 THEN integral + error * dt
    ELSE integral

\* C28: in a computation with 0 < dt < 3600, heat mode and ki > 0 the integral is
\* multiplied by 0.9 for |error| < hysteresis, increased by error*dt for
\* hysteresis <= |error| <= 1.0 and kept for |error| > 1.0, then clamped to
\* +-100/ki; the I term is ki times that value, and the value is what the room
\* state holds afterwards unless the sign of the error changed.
C28_IntegralBands ==
    [][\A k \in DOMAIN calcs' :
          LET r == calcs'[k]
              s == ctl'[r.c]
              old == room_states[room_key(r.c)]
              new == room_states'[room_key(r.c)]
              limit == (100 * PCT) \div s.ki
              raw == IntegralBand(old.integral_error, r.error, r.dt, r.hysteresis)
              clamped == Max2(-limit, Min2(limit, raw))
          IN (r.ran /\ r.dt > 0 /\ r.dt < 3600 /\ s.hvac_mode = "heat" /\ s.ki > 0)
             => /\ s.last_i = s.ki * clamped
                /\ r.error * old.prev_error >= 0 => new.integral_error = clamped]_vars

\* 0.2 K below the setpoint for one second, from an empty integral: 0.2 K s
C28_Witness ==
    /\ calcs # <<>> /\ calcs[1].ran
    /\ calcs[1].dt = 1 /\ calcs[1].error = 20
    /\ ctl[1].ki = 4
    /\ room_states[1].integral_error = 20
    /\ ctl[1].last_i = 80

\* C29: every computation that gets past the input checks leaves prev_error =
\* its error, and leaves integral_error = 0 if its error and the prev_error it
\* found have opposite signs.
C29_PrevErrorAndSignReset ==
    [][\A k \in DOMAIN calcs' :
          LET r == calcs'[k]
              old == room_states[room_key(r.c)]
              new == room_states'[room_key(r.c)]
          IN r.ran =>
                /\ new.prev_error = r.error
                /\ r.error * old.prev_error < 0 => new.integral_error = 0]_vars

\* the room was 1.0 K above the setpoint with a full integral and is now 0.2 K
\* below: the I term was computed from the integral, which is then reset
C29_Witness ==
    /\ calcs # <<>> /\ calcs[1].ran
    /\ calcs[1].error = 20 /\ calcs[1].dt = 1
    /\ ctl[1].ki = 4
    /\ ctl[1].last_i = 100 * PCT
    /\ room_states[1].prev_error = 20
    /\ room_states[1].integral_error = 0

\* ------------------------------------------------------ the shared integral
\* The sensor reads 21.0 at start and then moves among 20.2, 20.5 and 21.0; the
\* heating can be switched off and on and ki set to the top of its range.
IntStates == {2020, 2050, 2100}
IntValues == [ki |-> {500}]
IntTick == {300}
IntMaxTime == 600

InitInt == InitWith({2100})

NextInt ==
    \/ \E c \in Ctrl : AddedToHass(c, NoPosition)
    \/ \E c \in Ctrl : SensorChanged(c, IntStates, MaxSamples)
    \/ \E c \in Ctrl : UpdateTimerFires(c)
    \/ \E c \in Ctrl : SetHvacMode(c)
    \/ \E c \in Ctrl : SetNativeValue(c, IntValues)
    \/ Tick(IntTick, IntMaxTime)

SpecInt == InitInt /\ [][NextInt]_vars

\* C3 as stated: for a controller with ki > 0 the integral_error of the shared
\* state of its room lies within [-100/ki, 100/ki] for the controller's current
\* ki, in every reachable state.
C3_IntegralWithinAntiWindupBound ==
    \A c \in Ctrl :
        (ctl[c].ki > 0 /\ room_states[room_key(c)].present)
        => ctl[c].ki * Abs(room_states[room_key(c)].integral_error) <= 100 * PCT

\* ---------------------------------------------------------- window freeze
\* The sensor reads 21.0 at start and then moves among 20.2, 20.5 and 21.0; the
\* setpoint can be raised to 23.0 and the preset set to 5.
WinStates == {2020, 2050, 2100}
WinTargets == {2300}
WinPresets == {"5"}
WinTick == {300}
WinMaxTime == 600

InitWin == InitWith({2100})

NextWin ==
    \/ \E c \in Ctrl : AddedToHass(c, NoPosition)
    \/ \E c \in Ctrl : SensorChanged(c, WinStates, MaxSamples)
    \/ \E c \in Ctrl : UpdateTimerFires(c)
    \/ \E c \in Ctrl : SetTemperature(c, WinTargets)
    \/ \E c \in Ctrl : SetPresetMode(c, WinPresets)
    \/ Tick(WinTick, WinMaxTime)

SpecWin == InitWin /\ [][NextWin]_vars

\* C4 as stated: the step that triggers the window freeze commands the opening 0,
\* and while the freeze stays active no operation other than a sensor sample
\* commands any other opening.
C4_FrozenValveStaysClosed ==
    [][\A c \in Ctrl :
          /\ (/\ op'.name = "sensor" /\ op'.c = c
              /\ ctl'[c].window_freeze_active
              /\ ctl'[c].window_freeze_start = now
              /\ ctl'[c].window_freeze_start # ctl[c].window_freeze_start)
             => /\ \A k \in DOMAIN out' : out'[k].opening = 0
                /\ ctl[c].last_set_valve_opening # 0 => out' # <<>>
          /\ (/\ ctl[c].window_freeze_active /\ ctl'[c].window_freeze_active
              /\ op'.c = c /\ op'.name # "sensor")
             => \A k \in DOMAIN out' : out'[k].opening = 0]_vars

\* the freeze is active and the valve was commanded to 0 by the sample that
\* triggered it
C4_Witness ==
    \E c \in Ctrl :
        /\ op.name = "sensor" /\ op.c = c
        /\ ctl[c].window_freeze_active
        /\ ctl[c].window_freeze_start = now
        /\ out # <<>> /\ out[1].opening = 0 /\ out[1].res = "ok"
        /\ act[c].opening = 0

\* C26: an operation of a controller whose window freeze is active, and stays
\* active, makes no PID computation and leaves the RoomPIDState of its room as
\* it was.
C26_FrozenControllerSkipsPid ==
    [][\A c \in Ctrl :
          (/\ ctl[c].window_freeze_active /\ ctl'[c].window_freeze_active
           /\ op'.c = c)
          => /\ \A k \in DOMAIN calcs' : calcs'[k].c # c
             /\ room_states'[room_key(c)] = room_states[room_key(c)]]_vars

\* ------------------------------------------------- sudden-drop detection
\* The sensor reads 21.0 at start and then falls in steps of 0.04 or 0.4 down to
\* 20.2, so that up to 21 samples are read.
HistSteps == {4, 40}
HistRange == 2020..2100
HistSamples == 21
HistTick == {300}
HistMaxTime == 600

InitHist == InitWith({2100})

NextHist ==
    \/ \E c \in Ctrl : AddedToHass(c, NoPosition)
    \/ \E c \in Ctrl :
          SensorChanged(c, { sensor - d : d \in HistSteps } \cap HistRange,
                        HistSamples)
    \/ Tick(HistTick, HistMaxTime)

SpecHist == InitHist /\ [][NextHist]_vars

\* the last three samples of a history lie within the stable band
LastThreeStable(h, band) ==
    /\ Len(h) >= 3
    /\ \A i, j \in (Len(h) - 2)..Len(h) : h[i] - h[j] <= band

\* the last n entries of a sequence
LastReadings(q, n) == SubSeq(q, Max2(1, Len(q) - n + 1), Len(q))

\* what a sensor step of controller c does when the drop condition is drop: if it
\* holds the freeze is triggered (window_freeze_start = now, the valve commanded
\* to 0 unless 0 is the opening last set, window_freeze_active set unless the
\* control cycle of the same handler finds the last three samples stable);
\* otherwise the sample starts no freeze
FreezeTriggeredIff(c, drop) ==
    IF drop
    THEN /\ ctl'[c].window_freeze_start = now
         /\ ctl[c].last_set_valve_opening # 0 => (out' # <<>> /\ out'[1].opening = 0)
         /\ \/ ctl'[c].window_freeze_active
            \/ LastThreeStable(ctl'[c].temp_history, ctl[c].window_stable_band)
    ELSE /\ ctl'[c].window_freeze_start = ctl[c].window_freeze_start
         /\ ctl'[c].window_freeze_active => ctl[c].window_freeze_active

C25_HistoryBoundedAndPaired ==
    \A c \in Ctrl :
       LET h == ctl[c].temp_history
           t == ctl[c].temp_time_history
           kept == LastReadings(samples[c], 20)
       IN /\ Len(h) <= 20
          /\ Len(t) = Len(h)
          /\ Len(h) = Len(kept)
          /\ \A i \in DOMAIN h : <<t[i], h[i]>> = kept[i]
          /\ \A i, j \in DOMAIN t : i <= j => t[i] <= t[j]

\* the 21st sample was read: the history starts with the second
C25_Witness ==
    /\ Len(samples[1]) = 21
    /\ Len(ctl[1].temp_history) = 20
    /\ ctl[1].temp_history[1] = samples[1][2][2]
    /\ ctl[1].temp_history[20] = samples[1][21][2]
    /\ ctl[1].temp_time_history[20] > ctl[1].temp_time_history[1]

\* ------------------------------------------------ the valve exercise machine
ExPositions == {None, 40}
ExTick == {300}

InitEx == InitWith({2000})

NextEx ==
    \/ \E c \in Ctrl : AddedToHass(c, ExPositions)
    \/ \E c \in Ctrl : UpdateTimerFires(c)
    \/ \E c \in Ctrl : TriggerValveExercise(c)
    \/ \E c \in Ctrl : ButtonPress(c)
    \/ \E c \in Ctrl : SwitchExercise(c)
    \/ ExerciseStep2
    \/ ExerciseStep3
    \/ Tick(ExTick, ExMaxTime)

SpecEx == InitEx /\ [][NextEx]_vars


\* the opening _async_set_valve_opening sends for a requested value
Clamp(valve_opening) == Max2(0, Min2(100, valve_opening))

\* an exercise of controller c has written its first opening and not yet run
\* its last phase
ExerciseInProgress(c) == \E i \in DOMAIN pending : pending[i].c = c

ExerciseRequests == {"trigger_exercise", "press", "switch_exercise"}

C7_FailedWriteResetsToIdle ==
    \A c \in Ctrl :
        (/\ op.c = c
         /\ op.name \in {"trigger_exercise", "climate_step_2", "climate_step_3"}
         /\ out # <<>>
         /\ out[1].res # "ok")
        => /\ ~ctl[c].is_exercising
           /\ \A i \in DOMAIN pending :
                 ~(pending[i].c = c /\ pending[i].src = "climate")

\* C8 as stated: a request to start the exercise (climate trigger, button press,
\* weekly switch) made while an exercise of the controller is in progress writes
\* nothing to the valve and schedules nothing.
C8_RequestDuringExerciseRejected ==
    [][\A c \in Ctrl :
          (ExerciseInProgress(c) /\ op'.c = c /\ op'.name \in ExerciseRequests)
          => (out' = <<>> /\ pending' = pending)]_vars

\* C9 as stated: a control cycle that runs while an exercise of the controller is
\* between its first and its last write finds is_exercising set, computes no PID
\* output and writes nothing to the valve.
C9_ControlCycleSkipsDuringExercise ==
    \A c \in Ctrl :
        (op.name = "timer" /\ op.c = c /\ ExerciseInProgress(c))
        => (ctl[c].is_exercising /\ calcs = <<>> /\ out = <<>>)

Room == {1, 2}
RoomStates == {2050, 2100}
RoomTick == {600}
RoomMaxTime == 600
RoomSamples == 1

InitRoom ==
    /\ now = 0
    /\ ctl = [c \in Room |-> InitCtl]
    /\ room_states = [r \in RoomKeys |-> NoRoomPIDState]
    /\ act = [c \in Room |-> [opening |-> None, closing |-> None]]
    /\ sensor \in RoomStates \cup {None}
    /\ samples = [c \in Room |-> <<>>]
    /\ pending = <<>>
    /\ timers = <<>>
    /\ rooms = [r \in RoomKeys |-> <<>>]
    /\ created = [r \in RoomKeys |-> 0]
    /\ inflight = <<>>
    /\ switch = [c \in Ctrl |-> InitSwitch]
    /\ finished = <<>>
    /\ out = <<>>
    /\ calcs = <<>>
    /\ op = [name |-> "init", c |-> 0]

NextRoom ==
    \/ \E c \in Room : AddedToHass(c, NoPosition)
    \/ RoomSensorChanged(Room, RoomStates, RoomSamples)
    \/ \E c \in Room : UpdateTimerFires(c)
    \/ \E c \in Room : WillRemoveFromHass(c)
    \/ Tick(RoomTick, RoomMaxTime)

SpecRoom == InitRoom /\ [][NextRoom]_vars

\* C11: for every room key at most one RoomPIDState is ever constructed, the
\* registry holds it from then on, and every computation of a controller of
\* the room works on it: the first computation of a step finds the
\* last_calc_time the registry held before the step, whichever controller wrote
\* it, and a later computation of the same step finds the one just written.
C11_OneRoomStatePerKey ==
    [][\A k \in RoomKeys :
          /\ created'[k] <= 1
          /\ room_states'[k].present <=> created'[k] = 1
          /\ room_states[k].present => room_states'[k].present
          /\ LET ran == RanCalcs(calcs')
             IN \A j \in DOMAIN ran :
                   /\ room_key(ran[j].c) = k
                   /\ room_states'[k].present
                   /\ ran[j].dt =
                          IF j = 1
                          THEN IF room_states[k].present
                                  /\ room_states[k].last_calc_time # None
                               THEN now - room_states[k].last_calc_time
                               ELSE 0
                          ELSE 0]_vars

\* both controllers of the room computed in one step, the second on the state the
\* first had just constructed
C11_Witness ==
    /\ op.name = "sensor"
    /\ created[1] = 1
    /\ Len(RanCalcs(calcs)) = 2
    /\ RanCalcs(calcs)[1].c # RanCalcs(calcs)[2].c
    /\ room_states[1].last_calc_time = now

\* C14: the RoomPIDState of a room exists only while a controller of the room is
\* registered: when no controller is registered for a room key the registry
\* holds no state for it, so that the next controller to join computes from
\* integral_error = 0 and no last_calc_time.
C14_RoomStateDestroyedWithLastController ==
    \A k \in RoomKeys : rooms[k] = <<>> => room_states[k] = NoRoomPIDState

\* ----------------------------------------------------------------- setters
\* The number entities and the setpoint are set to values outside of their
\* ranges: hysteresis 0.0, interval 0 min, kp 150, ki 0.6, kd 2010, ka 10.1 and
\* a setpoint of 26.0 with max_temp 25.0.
SetValues ==
    [hysteresis |-> {0}, min_valve_update_interval |-> {0}, kp |-> {150},
     ki |-> {600}, kd |-> {2010}, ka |-> {101}]
SetTemperatures == {2600}
SetTick == {600}
SetMaxTime == 600

InitSet == InitWith({2100})

NextSet ==
    \/ \E c \in Ctrl : AddedToHass(c, NoPosition)
    \/ \E c \in Ctrl : SetNativeValue(c, SetValues)
    \/ \E c \in Ctrl : SetTemperature(c, SetTemperatures)
    \/ \E c \in Ctrl : UpdateTimerFires(c)
    \/ Tick(SetTick, SetMaxTime)

SpecSet == InitSet /\ [][NextSet]_vars

\* the setting a number entity writes, in the units of its range
Setting(s, setting_id) ==
    CASE setting_id = "hysteresis" -> s.hysteresis
      [] setting_id = "min_valve_update_interval" -> s.min_valve_update_interval \div 60
      [] setting_id = "kp" -> s.kp
      [] setting_id = "ki" -> s.ki
      [] setting_id = "kd" -> s.kd
      [] setting_id = "ka" -> s.ka

\* C18: a setter call never leaves a setting at a new value outside its range: a
\* call of a number entity (hysteresis, minimum update interval, kp, ki, kd, ka)
\* or of the setpoint either keeps the previous value or stores a value of the
\* documented range, so a value outside the range is not applied.
C18_OutOfRangeValueRejected ==
    [][\A c \in Ctrl :
          op'.c = c =>
             /\ \A id \in NumberSettings :
                   op'.name = id =>
                      \/ Setting(ctl'[c], id) = Setting(ctl[c], id)
                      \/ Setting(ctl'[c], id) \in NumberRange(id)
             /\ op'.name = "set_temperature" =>
                   \/ ctl'[c].target_temperature = ctl[c].target_temperature
                   \/ ctl'[c].target_temperature
                          \in DEFAULT_MIN_TEMP..DEFAULT_MAX_TEMP]_vars

\* ----------------------------------------------------------- missing input
\* The sensor entity has no valid state when the controller joins, or reads
\* 21.0; later it reads 20.5 or 21.0; the valve is disabled (preset "*") and
\* enabled again (preset "2").
MissStates == {2050, 2100}
MissPresets == {"*", "2"}
MissTick == {300}
MissMaxTime == 600

InitMiss == InitWith({None, 2100})

NextMiss ==
    \/ \E c \in Ctrl : AddedToHass(c, NoPosition)
    \/ \E c \in Ctrl : SensorChanged(c, MissStates, MaxSamples)
    \/ \E c \in Ctrl : SetPresetMode(c, MissPresets)
    \/ \E c \in Ctrl : UpdateTimerFires(c)
    \/ Tick(MissTick, MissMaxTime)

SpecMiss == InitMiss /\ [][NextMiss]_vars

\* the computation r was called without a current or a target temperature, or
\* with the valve disabled
MissingInput(r) ==
    \/ r.current_temperature = None
    \/ r.target_temperature = None
    \/ r.max_valve_position = 0

\* C15: a step whose computation was called with the current or the target
\* temperature absent or with max_valve_position = 0 got 0 from it, and leaves
\* the registry of room states (integral_error, prev_error, last_calc_time,
\* last_output, and whether a state exists at all) and the controller's
\* integral mirror and p/i/d/ff terms as they were.
C15_MissingInputMutatesNothing ==
    [][\A k \in DOMAIN calcs' :
          MissingInput(calcs'[k]) =>
             LET c == calcs'[k].c
             IN /\ Len(calcs') = 1
                /\ calcs'[k].opening = 0
                /\ room_states' = room_states
                /\ created' = created
                /\ ctl'[c].integral_error = ctl[c].integral_error
                /\ <<ctl'[c].last_p, ctl'[c].last_i, ctl'[c].last_d, ctl'[c].last_ff>>
                      = <<ctl[c].last_p, ctl[c].last_i, ctl[c].last_d, ctl[c].last_ff>>]_vars

\* a computation with the valve disabled, in a room whose state holds a learned
\* integral and whose controller stores a non-zero p term
C15_Witness ==
    /\ calcs # <<>>
    /\ calcs[1].max_valve_position = 0
    /\ calcs[1].current_temperature # None
    /\ room_states[1].present
    /\ room_states[1].integral_error # 0
    /\ ctl[1].last_p # 0

\* ------------------------------------------------------ the update interval
\* The controller is configured in PID or in binary mode; the sensor has no
\* valid state at the start or reads 21.4, then 21.3 (0.2 below the setpoint
\* 21.5) or 21.4 (0.1 below); the minimum update interval is 10 minutes or set
\* to 5, and the climate entity's valve exercise runs.
SchedModes == {"pid", "binary"}
SchedStates == {2130, 2140}
SchedValues == [min_valve_update_interval |-> {5}]
SchedTick == {300}
SchedMaxTime == 600
SchedSamples == 2

InitSched ==
    /\ now = 0
    /\ \E mode \in SchedModes :
          ctl = [c \in Ctrl |-> [InitCtl EXCEPT !.control_mode = mode]]
    /\ room_states = [r \in RoomKeys |-> NoRoomPIDState]
    /\ act = [c \in Ctrl |-> [opening |-> None, closing |-> None]]
    /\ sensor \in {None, 2140}
    /\ samples = [c \in Ctrl |-> <<>>]
    /\ pending = <<>>
    /\ timers = <<>>
    /\ rooms = [r \in RoomKeys |-> <<>>]
    /\ created = [r \in RoomKeys |-> 0]
    /\ inflight = <<>>
    /\ switch = [c \in Ctrl |-> InitSwitch]
    /\ finished = <<>>
    /\ out = <<>>
    /\ calcs = <<>>
    /\ op = [name |-> "init", c |-> 0]

NextSched ==
    \/ \E c \in Ctrl : AddedToHass(c, NoPosition)
    \/ \E c \in Ctrl : SensorChanged(c, SchedStates, SchedSamples)
    \/ \E c \in Ctrl : UpdateTimerFires(c)
    \/ \E c \in Ctrl : SetNativeValue(c, SchedValues)
    \/ \E c \in Ctrl : TriggerValveExercise(c)
    \/ ExerciseStep2
    \/ ExerciseStep3
    \/ Tick(SchedTick, SchedMaxTime)

SpecSched == InitSched /\ [][NextSched]_vars

\* |target - current| < 0.2 with both present, no exercise running, PID mode
Stable(s) ==
    /\ s.current_temperature # None
    /\ s.target_temperature # None
    /\ Abs(s.target_temperature - s.current_temperature) < 20
    /\ ~s.is_exercising
    /\ s.control_mode = "pid"

\* the last step ended with _async_schedule_next_update: a control cycle, or the
\* last phase of the climate entity's exercise
EndsWithSchedule ==
    \/ op'.name \in {"timer", "climate_step_3"}
    \/ /\ op'.name = "sensor"
       /\ \/ sensor = None \/ sensor' = None
          \/ Abs(sensor' - sensor) >= 10

LoopStates == {2000, 2100}
LoopTick == {300}
LoopMaxTime == 600
LoopSamples == 2

InitLoop == InitWith({2100})

NextLoop ==
    \/ \E c \in Ctrl : AddedToHass(c, NoPosition)
    \/ \E c \in Ctrl : SensorChanged(c, LoopStates, LoopSamples)
    \/ \E c \in Ctrl : UpdateTimerFires(c)
    \/ \E c \in Ctrl : SetHvacMode(c)
    \/ \E c \in Ctrl : TriggerValveExercise(c)
    \/ ExerciseStep2
    \/ ExerciseStep3
    \/ Tick(LoopTick, LoopMaxTime)

SpecLoop == InitLoop /\ [][NextLoop]_vars

\* the update timers of controller c among the registrations q
TimersOf(q, c) == { i \in DOMAIN q : q[i].c = c }

\* the step ran a control cycle of controller c to its end
RanControlCycle(c) ==
    /\ op'.c = c
    /\ \/ op'.name \in {"timer", "set_temperature", "set_hvac_mode",
                        "button_step_3", "switch_step_3"}
       \/ /\ op'.name = "sensor"
          /\ \/ sensor = None \/ sensor' = None
             \/ Abs(sensor' - sensor) >= 10

\* C17: a controller never has two update timers pending, and after every step
\* that ran a control cycle to its end (skipped for an exercise or a window
\* freeze, in Off mode, or with a failed valve write) exactly one is pending: the
\* one its handle refers to, due now or later.
C17_OneTimerAfterCycle ==
    [][\A c \in Ctrl :
          /\ Cardinality(TimersOf(timers', c)) <= 1
          /\ RanControlCycle(c) =>
                /\ Cardinality(TimersOf(timers', c)) = 1
                /\ \A i \in TimersOf(timers', c) :
                      /\ timers'[i].due = ctl'[c].update_timer
                      /\ timers'[i].due >= now]_vars

\* the timer fired during an exercise of the climate entity: the cycle wrote
\* nothing and a timer is pending again
C17_Witness ==
    /\ op.name = "timer"
    /\ ctl[1].is_exercising
    /\ out = <<>> /\ calcs = <<>>
    /\ timers = <<Timer(1, now + 600)>>

\* C24: after every run of the valve write, whatever its outcome, the opening
\* and closing degrees the actuator received last are complementary and the
\* opening lies in 0..100 (an actuator that has received nothing yet has no
\* degrees).
C24_DegreesComplementary ==
    \A c \in Ctrl :
       (\E i \in DOMAIN out : out[i].c = c)
       => \/ act[c].opening = None /\ act[c].closing = None
          \/ /\ act[c].opening \in 0..100
             /\ act[c].closing = 100 - act[c].opening

\* ------------------------------------------------------- external events
\* The sensor reads 21.0 at join and then 20.0 (a drop), 20.9, 20.95 or 21.0; the
\* setpoint is raised to 23.0; the heating is switched off and on.
EvtStates == {2000, 2090, 2095, 2100}
EvtTargets == {2300}
EvtTick == {300}
EvtMaxTime == 600
EvtSamples == 2

InitEvt == InitWith({2100})

NextEvt ==
    \/ \E c \in Ctrl : AddedToHass(c, NoPosition)
    \/ \E c \in Ctrl : SensorChanged(c, EvtStates, EvtSamples)
    \/ \E c \in Ctrl : UpdateTimerFires(c)
    \/ \E c \in Ctrl : SetTemperature(c, EvtTargets)
    \/ \E c \in Ctrl : SetHvacMode(c)
    \/ Tick(EvtTick, EvtMaxTime)

SpecEvt == InitEvt /\ [][NextEvt]_vars

\* the step handled an external event of controller c: a change of the sensor
\* between two valid states by 0.1 or more, a setpoint change or a mode change
ExternalEvent(c) ==
    /\ op'.c = c
    /\ \/ op'.name \in {"set_temperature", "set_hvac_mode"}
       \/ /\ op'.name = "sensor"
          /\ sensor # None /\ sensor' # None
          /\ Abs(sensor' - sensor) >= 10

\* C20: after the handler of an external event the timers that were pending for
\* the controller are gone and exactly one timer is pending, set in this step:
\* it is due one interval, chosen from the new state, after now; and a control
\* cycle ran in the step: in heat mode, outside a window freeze, a computation
\* was made with the temperatures the step left.
C20_EventRunsCycleAndReschedules ==
    [][\A c \in Ctrl :
          ExternalEvent(c) =>
             /\ Cardinality(TimersOf(timers', c)) = 1
             /\ \A i \in TimersOf(timers', c) :
                   /\ timers'[i].due = ctl'[c].update_timer
                   /\ timers'[i].due - now =
                         IF Stable(ctl'[c]) THEN 1800
                         ELSE ctl'[c].min_valve_update_interval
             /\ (ctl'[c].hvac_mode = "heat" /\ ~ctl'[c].window_freeze_active)
                => /\ calcs' # <<>>
                   /\ calcs'[Len(calcs')].current_temperature
                         = ctl'[c].current_temperature
                   /\ calcs'[Len(calcs')].target_temperature
                         = ctl'[c].target_temperature]_vars

\* a mode change 300 s after join: the timer set at join for 600 is gone, one for
\* 900 is pending
C20_Witness ==
    /\ op.name = "set_hvac_mode"
    /\ now = 300
    /\ timers = <<Timer(1, 900)>>
    /\ ctl[1].update_timer = 900

\* ------------------------------------------------- handlers as coroutines
\* The handlers are coroutines on one event loop: a handler runs until it awaits
\* a blocking service call, other handlers run while the call is outstanding, and
\* the handler goes on when the call returns. A suspended handler is recorded
\* with the await it is at and the local value it holds (the opening to write,
\* the temperature set); trigger is should_trigger_immediate of the sensor
\* handler.
Suspended(c, at, value, trigger) ==
    [c |-> c, at |-> at, value |-> value, trigger |-> trigger]

suspend(W, c, at, value, trigger) ==
    [W EXCEPT !.inflight = Append(@, Suspended(c, at, value, trigger))]

\* variant: the computation works on a copy of the room state that is stored
\* only by a cycle that makes no write
_async_control_heating_after_sync_on_copy(W, c) ==
    IF W.ctl[c].hvac_mode = "off"
    THEN suspend(W, c, "set_trv_off", 0, FALSE)
    ELSE LET r == _calculate_desired_valve_opening(W, c)
             s == r.W.ctl[c]
             should_write ==
                 IF s.last_valve_update = None THEN TRUE
                 ELSE now - s.last_valve_update >= s.min_valve_update_interval
                      /\ r.opening # s.last_set_valve_opening
         IN IF should_write
            THEN suspend([r.W EXCEPT !.room_states = W.room_states],
                         c, "set_valve_opening", r.opening, FALSE)
            ELSE _async_schedule_next_update(r.W, c)

\* _async_control_heating from the hvac mode test to the valve write or, without
\* a write, to its end; the computation is a plain call and runs whole
_async_control_heating_after_sync(W, c) ==
    IF W.ctl[c].hvac_mode = "off"
    THEN suspend(W, c, "set_trv_off", 0, FALSE)
    ELSE LET r == _calculate_desired_valve_opening(W, c)
             s == r.W.ctl[c]
             should_write ==
                 IF s.last_valve_update = None THEN TRUE
                 ELSE now - s.last_valve_update >= s.min_valve_update_interval
                      /\ r.opening # s.last_set_valve_opening
         IN IF should_write
            THEN suspend(r.W, c, "set_valve_opening", r.opening, FALSE)
            ELSE _async_schedule_next_update(r.W, c)

\* _async_control_heating up to its first blocking call; sync: the temperature
\* sync has a value to send (should_sync)
_async_control_heating_until_await(W, c, sync) ==
    LET body(V) ==
            IF sync /\ V.ctl[c].current_temperature # None
            THEN suspend(V, c, "sync_temperature_calibration", 0, FALSE)
            ELSE _async_control_heating_after_sync(V, c)
    IN IF W.ctl[c].is_exercising THEN _async_schedule_next_update(W, c)
       ELSE IF W.ctl[c].window_freeze_active
       THEN IF _is_window_freeze_over(W.ctl[c])
            THEN body([W EXCEPT !.ctl[c].window_freeze_active = FALSE])
            ELSE _async_schedule_next_update(W, c)
       ELSE body(W)

\* _async_sensor_changed after the window test: temperature sync, then cancel
\* the timer and run a control cycle. A sync that has nothing to send here has
\* nothing to send at the start of the cycle either.
_async_sensor_changed_after_close(W, c, trigger, sync) ==
    IF ~trigger THEN W
    ELSE IF sync /\ W.ctl[c].current_temperature # None
    THEN suspend(W, c, "sensor_sync", 0, TRUE)
    ELSE _async_control_heating_until_await(cancel_update_timer(W, c), c, FALSE)

\* _async_sensor_changed up to its first blocking call
_async_sensor_changed_until_await(W, c, old_state, new_state, sync) ==
    LET W1 == _async_update_temp(W, c, new_state)
        valid == old_state # None /\ new_state # None
        should_trigger_immediate ==
            IF valid THEN Abs(new_state - old_state) >= 10 ELSE TRUE
        drop == valid /\ sudden_drop_detected(W1.ctl[c], old_state, new_state)
    IN IF drop
       THEN LET F == [W1 EXCEPT !.ctl[c].window_freeze_active = TRUE,
                                !.ctl[c].window_freeze_start = now]
            IN IF F.ctl[c].last_set_valve_opening # 0
               THEN suspend(F, c, "window_close", 0, should_trigger_immediate)
               ELSE _async_sensor_changed_after_close(F, c, should_trigger_immediate,
                                                      sync)
       ELSE _async_sensor_changed_after_close(W1, c, should_trigger_immediate, sync)

\* async_set_temperature up to its blocking call to the TRV
async_set_temperature_until_await(W, c, temperature) ==
    suspend([W EXCEPT !.ctl[c].target_temperature = temperature],
            c, "set_temperature", temperature, FALSE)

\* async_set_temperature after the call to the TRV
async_set_temperature_after_call(W, c, temperature, sync) ==
    LET s == W.ctl[c]
        preload ==
            /\ Truthy(s.current_temperature)
            /\ temperature - s.current_temperature > 100
            /\ s.control_mode = "pid"
            /\ s.ki > 0
            /\ s.integral_error < (20 * PCT) \div s.ki
        W1 == [W EXCEPT !.ctl[c].last_valve_update = None,
                        !.ctl[c].integral_error =
                            IF preload THEN (20 * PCT) \div s.ki ELSE @]
    IN _async_control_heating_until_await(cancel_update_timer(W1, c), c, sync)

\* the blocking call the i-th suspended handler awaits returns (res: what became
\* of a valve write); the handler runs to its next blocking call or to its end
service_call_returns(W, i, res, sync) ==
    LET t == W.inflight[i]
        c == t.c
        W1 == [W EXCEPT !.inflight = Without(@, i)]
    IN CASE t.at = "window_close" ->
              _async_sensor_changed_after_close(
                  _async_set_valve_opening(W1, c, 0, res), c, t.trigger, sync)
         [] t.at = "sensor_sync" ->
              _async_control_heating_until_await(cancel_update_timer(W1, c), c, sync)
         [] t.at = "sync_temperature_calibration" ->
              _async_control_heating_after_sync(W1, c)
         [] t.at = "set_trv_off" -> _async_schedule_next_update(W1, c)
         [] t.at = "set_temperature" ->
              async_set_temperature_after_call(W1, c, t.value, sync)
         [] OTHER ->
              _async_schedule_next_update(
                  _async_set_valve_opening(W1, c, t.value, res), c)

\* at most this many handlers are suspended when an event arrives
MaxInflight == 2

\* the sensor entity changes state: the handler of every added controller runs
\* to its first blocking call
SensorChangedStart(cs, states, limit) ==
    /\ \E c \in cs : ctl[c].added
    /\ Len(inflight) < MaxInflight
    /\ \E new_state \in states \ {sensor}, first \in cs, sync \in BOOLEAN :
          LET handler(W, c) ==
                  IF W.ctl[c].added
                  THEN _async_sensor_changed_until_await(W, c, sensor, new_state, sync)
                  ELSE W
              RECURSIVE run(_, _)
              run(W, todo) ==
                  IF todo = {} THEN W
                  ELSE LET c == IF first \in todo THEN first
                                ELSE CHOOSE x \in todo : TRUE
                       IN run(handler(W, c), todo \ {c})
          IN /\ ctl[first].added
             /\ \A c \in cs : ctl[c].added => Len(samples[c]) < limit
             /\ sensor' = new_state
             /\ Commit(run(World, cs), "sensor", first)
    /\ UNCHANGED now

\* the update timer fires: a control cycle starts
UpdateTimerStart(c) ==
    /\ ctl[c].added
    /\ Len(inflight) < MaxInflight
    /\ \E i \in DOMAIN timers, sync \in BOOLEAN :
          /\ timers[i] = Timer(c, now)
          /\ Commit(_async_control_heating_until_await(timer_fired(World, i), c, sync),
                    "timer", c)
    /\ UNCHANGED <<now, sensor>>

SetTemperatureStart(c, temperatures) ==
    /\ ctl[c].added
    /\ Len(inflight) < MaxInflight
    /\ \E temperature \in temperatures \ {ctl[c].target_temperature} :
          Commit(async_set_temperature_until_await(World, c, temperature),
                 "set_temperature", c)
    /\ UNCHANGED <<now, sensor>>

\* a blocking service call returns
ServiceCallReturns ==
    /\ \E i \in DOMAIN inflight, res \in WriteOutcomes, sync \in BOOLEAN :
          Commit(service_call_returns(World, i, res, sync), "returns", inflight[i].c)
    /\ UNCHANGED <<now, sensor>>

\* ------------------------------------------------------------ concurrency
\* two controllers of one room
ConcStates == {2050}
ConcTick == {600}
ConcMaxTime == 600

InitConc == InitRoom

NextConc ==
    \/ \E c \in Room : AddedToHass(c, NoPosition)
    \/ SensorChangedStart(Room, ConcStates, MaxSamples)
    \/ \E c \in Room : UpdateTimerStart(c)
    \/ ServiceCallReturns
    \/ Tick(ConcTick, ConcMaxTime)

SpecConc == InitConc /\ [][NextConc]_vars

\* the RoomPIDState after the read-modify-write of computation r of a controller
\* configured as s, made at the present time on the state st
AfterComputation(st, r, s) ==
    LET dt == IF st.last_calc_time = None THEN 0 ELSE now - st.last_calc_time
        integral == integral_update(st.integral_error, r.error, dt, s.ki,
                                    r.hysteresis, s.hvac_mode = "heat")
    IN [st EXCEPT !.present = TRUE,
                  !.integral_error =
                      IF r.error * st.prev_error < 0 THEN 0 ELSE integral,
                  !.prev_error = r.error,
                  !.last_calc_time = now]

\* the state after the computations q, one after the other
RECURSIVE AfterComputations(_, _, _)
AfterComputations(st, q, S) ==
    IF q = <<>> THEN st
    ELSE AfterComputations(AfterComputation(st, Head(q), S[Head(q).c]), Tail(q), S)

\* C12: the computations on the shared RoomPIDState are serial: whatever
\* handlers of the two controllers are suspended, every step leaves
\* integral_error, prev_error and last_calc_time as the computations made in
\* that step, applied whole and one after the other to the state before the
\* step, leave them; a step without a computation (a handler going on after a
\* write) leaves them alone, so no update is overwritten from a stale copy.
C12_ComputationsSerial ==
    [][\A k \in RoomKeys :
          LET after == AfterComputations(room_states[k], RanCalcs(calcs'), ctl')
          IN /\ room_states'[k].integral_error = after.integral_error
             /\ room_states'[k].prev_error = after.prev_error
             /\ room_states'[k].last_calc_time = after.last_calc_time]_vars

\* the timer of controller 2 fired while a cycle of controller 1 was suspended at
\* its valve write: controller 2 computed on the state controller 1 had written
\* at the same instant, integral included
C12_Witness ==
    /\ op = [name |-> "timer", c |-> 2]
    /\ \E i \in DOMAIN inflight :
          inflight[i].c = 1 /\ inflight[i].at = "set_valve_opening"
    /\ Len(RanCalcs(calcs)) = 1
    /\ RanCalcs(calcs)[1].c = 2 /\ RanCalcs(calcs)[1].dt = 0
    /\ now = 600
    /\ room_states[1].last_calc_time = 600
    /\ room_states[1].integral_error # 0

\* one controller, with setpoint changes
CycStates == {2050}
CycTargets == {2200}
CycTick == {600}
CycMaxTime == 600

InitCyc == InitWith({None, 2100})

NextCyc ==
    \/ \E c \in Ctrl : AddedToHass(c, NoPosition)
    \/ SensorChangedStart(Ctrl, CycStates, MaxSamples)
    \/ \E c \in Ctrl : UpdateTimerStart(c)
    \/ \E c \in Ctrl : SetTemperatureStart(c, CycTargets)
    \/ ServiceCallReturns
    \/ Tick(CycTick, CycMaxTime)

SpecCyc == InitCyc /\ [][NextCyc]_vars

\* the blocking calls awaited inside _async_control_heating
CycleAwaits == {"sync_temperature_calibration", "set_trv_off", "set_valve_opening"}

\* the control cycles of controller c that are suspended
CyclesInFlight(c) ==
    { i \in DOMAIN inflight : inflight[i].c = c /\ inflight[i].at \in CycleAwaits }

\* C13: a controller never has two control cycles in flight: while one of its
\* cycles is suspended at an actuator or sync write no second cycle of the same
\* controller gets as far as a suspension of its own.
C13_OneCycleInFlight ==
    \A c \in Ctrl : Cardinality(CyclesInFlight(c)) <= 1

\* C35: with the handlers interleaved at their awaited service calls, a
\* controller never has more than one update timer pending, and the pending one
\* is the one its handle refers to.
C35_AtMostOneTimerPending ==
    \A c \in Ctrl :
        /\ Cardinality(TimersOf(timers, c)) <= 1
        /\ \A i \in TimersOf(timers, c) : timers[i].due = ctl[c].update_timer

\* a cycle has run to its end and scheduled the next update while another cycle
\* of the controller is still suspended
C35_Witness ==
    \E c \in Ctrl :
        /\ op.name = "returns" /\ op.c = c
        /\ CyclesInFlight(c) # {}
        /\ Cardinality(TimersOf(timers, c)) = 1

\* ------------------------------------------------------------ warm restart
\* After a restart of Home Assistant the room registry is empty and
\* async_added_to_hass restores the integral from the attributes of the last
\* state: none, 300 K s or -300 K s.
WarmIntegrals == {0 - 30000, 0, 30000}
WarmStates == {2000, 2100, 2140}
WarmTick == {600}
WarmMaxTime == 600
WarmSamples == 2

InitWarm ==
    /\ now = 0
    /\ \E i \in WarmIntegrals :
          ctl = [c \in Ctrl |-> [InitCtl EXCEPT !.integral_error = i]]
    /\ room_states = [r \in RoomKeys |-> NoRoomPIDState]
    /\ act = [c \in Ctrl |-> [opening |-> None, closing |-> None]]
    /\ sensor \in WarmStates
    /\ samples = [c \in Ctrl |-> <<>>]
    /\ pending = <<>>
    /\ timers = <<>>
    /\ rooms = [r \in RoomKeys |-> <<>>]
    /\ created = [r \in RoomKeys |-> 0]
    /\ inflight = <<>>
    /\ switch = [c \in Ctrl |-> InitSwitch]
    /\ finished = <<>>
    /\ out = <<>>
    /\ calcs = <<>>
    /\ op = [name |-> "init", c |-> 0]

NextWarm ==
    \/ \E c \in Ctrl : AddedToHass(c, NoPosition)
    \/ \E c \in Ctrl : SensorChanged(c, WarmStates, WarmSamples)
    \/ \E c \in Ctrl : UpdateTimerFires(c)
    \/ Tick(WarmTick, WarmMaxTime)

SpecWarm == InitWarm /\ [][NextWarm]_vars

\* C21: the first computation after the restore, made when the entity is added,
\* computes its I term from the restored integral: i = ki * integral_error as
\* restored (the computation is made at dt = 0, so nothing is added yet).
C21_RestoredIntegralUsed ==
    [][\A c \in Ctrl :
          (op'.name = "added" /\ op'.c = c /\ RanCalcs(calcs') # <<>>)
          => ctl'[c].last_i = ctl[c].ki * ctl[c].integral_error]_vars

\* C22: the first computation on a fresh room state with target 21.5, current
\* 20.0, hysteresis 0.15, kp 5.0, ki 0.004, kd 0, ka 0 and max_valve_position 40
\* has dt = 0 and yields p = 12.75 %, i = 0 and the opening 5.
C22_FirstComputationScenario ==
    [][\A c \in Ctrl :
          LET ran == RanCalcs(calcs')
              s == ctl'[c]
          IN (/\ ~room_states[room_key(c)].present
              /\ ran # <<>> /\ ran[1].c = c
              /\ ran[1].target_temperature = 2150
              /\ ran[1].current_temperature = 2000
              /\ ran[1].hysteresis = 15 /\ ran[1].max_valve_position = 40
              /\ s.kp = 5 /\ s.ki = 4 /\ s.kd = 0 /\ s.ka = 0)
             => /\ ran[1].dt = 0
                /\ ran[1].error = 150
                /\ s.last_p = 1275 * 1000
                /\ s.last_i = 0
                /\ s.last_d = 0 /\ s.last_ff = 0
                /\ ran[1].final_desired = 5
                /\ ran[1].opening = 5]_vars

\* the entity was added at 20.0 with nothing restored: one computation, 5 % asked
C22_Witness ==
    /\ op.name = "added"
    /\ Len(RanCalcs(calcs)) = 1
    /\ calcs[1].current_temperature = 2000 /\ calcs[1].target_temperature = 2150
    /\ calcs[1].max_valve_position = 40
    /\ ctl[1].last_p = 1275 * 1000
    /\ Len(out) = 1 /\ out[1].opening = 5

\* --------------------------------------------------------- heating off
\* The sensor reads 21.0 at join and then 21.0 or 22.0, around the setpoint
\* 21.5; the heating is switched off and on, the preset set to 3, the setpoint
\* raised to 23.0.
OffStates == {2100, 2200}
OffPresets == {"3"}
OffTargets == {2300}
OffTick == {300}
OffMaxTime == 600
OffSamples == 2

InitOff == InitWith({2100})

NextOff ==
    \/ \E c \in Ctrl : AddedToHass(c, NoPosition)
    \/ \E c \in Ctrl : SensorChanged(c, OffStates, OffSamples)
    \/ \E c \in Ctrl : UpdateTimerFires(c)
    \/ \E c \in Ctrl : SetHvacMode(c)
    \/ \E c \in Ctrl : SetPresetMode(c, OffPresets)
    \/ \E c \in Ctrl : SetTemperature(c, OffTargets)
    \/ Tick(OffTick, OffMaxTime)

SpecOff == InitOff /\ [][NextOff]_vars

\* C30: an operation of a controller whose hvac mode is Off, and stays Off,
\* leaves the integral_error of the RoomPIDState of its room as it was.
C30_OffModeKeepsIntegral ==
    [][\A c \in Ctrl :
          (/\ ctl[c].hvac_mode = "off" /\ ctl'[c].hvac_mode = "off"
           /\ op'.c = c)
          => room_states'[room_key(c)].integral_error
                = room_states[room_key(c)].integral_error]_vars

\* ------------------------------------------------- the weekly valve exercise
\* datetime.now() is counted in seconds from a Monday 00:00 local time.
CHECK_INTERVAL == 86400
SUNDAY == 6
EXERCISE_HOUR == 3
EXERCISE_PERIOD_DAYS == 7
DaySeconds == 24 * 3600

\* datetime.weekday(), datetime.hour, timedelta.days
weekday(t) == (t \div DaySeconds) % 7
hour(t) == (t % DaySeconds) \div 3600
days(d) == d \div DaySeconds

\* AntiCalcificationSwitch.async_added_to_hass: the switch is on by default and
\* registers _async_check_exercise with async_track_time_interval, which runs it
\* every 24 hours counted from the registration
AntiCalcificationSwitch_async_added_to_hass(W, c) ==
    LET sw == W.switch[c]
    IN [W EXCEPT !.switch[c] =
           IF sw.is_on
           THEN [sw EXCEPT !.added = TRUE, !.listener = now + CHECK_INTERVAL,
                           !.since = now]
           ELSE [sw EXCEPT !.added = TRUE]]

\* AntiCalcificationSwitch._async_check_exercise up to the first sleep of the
\* exercise it starts; the exercise finds the climate entity among the entities
\* of the config entry
_async_check_exercise(W, c, res) ==
    LET sw == W.switch[c]
    IN IF ~sw.is_on THEN W
       ELSE IF weekday(now) # SUNDAY THEN W
       ELSE IF hour(now) # EXERCISE_HOUR THEN W
       ELSE IF sw.last_exercise # None
               /\ days(now - sw.last_exercise) < EXERCISE_PERIOD_DAYS THEN W
       ELSE IF ~W.ctl[c].added THEN W
       ELSE _async_exercise_valve(
                [W EXCEPT !.switch[c].starts = Append(@, now)], c, res)

\* the interval listener fires and stays registered for the next interval
interval_fired(W, c) == [W EXCEPT !.switch[c].listener = now + CHECK_INTERVAL]

SwitchAdded(c) ==
    /\ ~switch[c].added
    /\ Commit(AntiCalcificationSwitch_async_added_to_hass(World, c),
              "switch_added", c)
    /\ UNCHANGED <<now, sensor>>

SwitchCheck(c) ==
    /\ switch[c].listener = now
    /\ \E res \in WriteOutcomes :
          Commit(_async_check_exercise(interval_fired(World, c), c, res),
                 "switch_check", c)
    /\ UNCHANGED <<now, sensor>>

\* the times at which a timer, an exercise phase or a periodic check is due
DueTimes ==
    {timers[i].due : i \in DOMAIN timers}
    \cup {pending[i].due : i \in DOMAIN pending}
    \cup {switch[c].listener : c \in {d \in Ctrl : switch[d].listener # None}}

\* the entities of the config entries are set up; time passes up to the next
\* timer, exercise phase or periodic check
TimePasses(limit) ==
    /\ \A c \in Ctrl : ctl[c].added /\ switch[c].added
    /\ \E t \in DueTimes :
          /\ \A u \in DueTimes : t <= u
          /\ now < t /\ t <= limit
          /\ now' = t
    /\ finished' = <<>>
    /\ out' = <<>>
    /\ calcs' = <<>>
    /\ op' = [name |-> "tick", c |-> 0]
    /\ UNCHANGED <<ctl, room_states, act, sensor, samples, pending, timers, rooms,
                   created, inflight, switch>>

\* Home Assistant starts on a Saturday at 03:30 or at 14:00 and runs until the
\* Sunday 05:00 of the week after; the room stays at the setpoint 21.5.
WeekStarts == {5 * DaySeconds + 12600, 5 * DaySeconds + 14 * 3600}
WeekStates == {2150}
WeekMaxTime == 1141200

InitWeek ==
    /\ now \in WeekStarts
    /\ ctl = [c \in Ctrl |-> InitCtl]
    /\ room_states = [r \in RoomKeys |-> NoRoomPIDState]
    /\ act = [c \in Ctrl |-> [opening |-> None, closing |-> None]]
    /\ sensor \in WeekStates
    /\ samples = [c \in Ctrl |-> <<>>]
    /\ pending = <<>>
    /\ timers = <<>>
    /\ rooms = [r \in RoomKeys |-> <<>>]
    /\ created = [r \in RoomKeys |-> 0]
    /\ inflight = <<>>
    /\ switch = [c \in Ctrl |-> InitSwitch]
    /\ finished = <<>>
    /\ out = <<>>
    /\ calcs = <<>>
    /\ op = [name |-> "init", c |-> 0]

NextWeek ==
    \/ \E c \in Ctrl : AddedToHass(c, NoPosition)
    \/ \E c \in Ctrl : SwitchAdded(c)
    \/ \E c \in Ctrl : SwitchCheck(c)
    \/ ExerciseStep2
    \/ ExerciseStep3
    \/ \E c \in Ctrl : UpdateTimerFires(c)
    \/ TimePasses(WeekMaxTime)

SpecWeek == InitWeek /\ [][NextWeek]_vars

\* the starts of the Sunday 03:00 hours within the time the model covers
SundayWindows ==
    {SUNDAY * DaySeconds + EXERCISE_HOUR * 3600 + k * 7 * DaySeconds : k \in 0..1}

\* the exercises the periodic check of c started in the hour that begins at w
StartsIn(c, w) ==
    {i \in DOMAIN switch[c].starts :
        w <= switch[c].starts[i] /\ switch[c].starts[i] < w + 3600}

\* C27: once a Sunday 03:00 hour has passed during which the protection of c was
\* switched on, exactly one valve exercise has been started in that hour.
C27_ExerciseEverySunday ==
    \A c \in Ctrl, w \in SundayWindows :
        (/\ ctl[c].added /\ switch[c].is_on
         /\ switch[c].since # None /\ switch[c].since <= w
         /\ now >= w + 3600)
        => Cardinality(StartsIn(c, w)) = 1

\* ------------------------------------------------- the end of a window freeze
\* The sensor reads 21.0 at join and then moves among 20.2, 20.3 and 21.0 while
\* the update timer runs the control cycle for 40 minutes.
ThawStates == {2020, 2030, 2100}
ThawTick == {600}
ThawMaxTime == 2400
ThawSamples == 4

InitThaw == InitWith({2100})

NextThaw ==
    \/ \E c \in Ctrl : AddedToHass(c, NoPosition)
    \/ \E c \in Ctrl : SensorChanged(c, ThawStates, ThawSamples)
    \/ \E c \in Ctrl : UpdateTimerFires(c)
    \/ Tick(ThawTick, ThawMaxTime)

SpecThaw == InitThaw /\ [][NextThaw]_vars

\* the operations of SpecThaw that run _async_control_heating: the timer, and
\* the sensor change, whose steps are all of 0.1 degrees or more
ThawCycles == {"timer", "sensor"}

C38_FreezeStartKept ==
    [][\A c \in Ctrl :
          (/\ op'.c = c
           /\ ctl[c].window_freeze_active /\ ctl'[c].window_freeze_active)
          => ctl'[c].window_freeze_start = ctl[c].window_freeze_start]_vars

\* ------------------------------------------- requests during a valve exercise
\* The climate entity runs its valve exercise while the sensor moves between
\* 21.0 and 20.2 and the preset is set to 5.
BusyStates == {2020, 2100}
BusyPresets == {"5"}
BusyTick == {300}
BusyMaxTime == 600
BusySamples == 2

InitBusy == InitWith({2100})

NextBusy ==
    \/ \E c \in Ctrl : AddedToHass(c, NoPosition)
    \/ \E c \in Ctrl : TriggerValveExercise(c)
    \/ ExerciseStep2
    \/ ExerciseStep3
    \/ \E c \in Ctrl : SensorChanged(c, BusyStates, BusySamples)
    \/ \E c \in Ctrl : SetPresetMode(c, BusyPresets)
    \/ \E c \in Ctrl : UpdateTimerFires(c)
    \/ Tick(BusyTick, BusyMaxTime)

SpecBusy == InitBusy /\ [][NextBusy]_vars

\* the operations that are not part of the exercise sequence
BusyRequests ==
    {"sensor", "set_preset_mode", "set_temperature", "set_hvac_mode", "timer"}

\* C32: a sensor sample, a preset change, a setpoint change, a mode change or a
\* timer tick of a controller whose is_exercising is true attempts no valve
\* write.
C32_ExerciseHoldsValve ==
    [][\A c \in Ctrl :
          (ctl[c].is_exercising /\ op'.c = c /\ op'.name \in BusyRequests)
          => \A k \in DOMAIN out' : out'[k].c # c]_vars

\* C33: a setpoint change that meets the preload conditions (current temperature
\* known, new setpoint more than 1 degree above it, PID mode, ki > 0, integral
\* below 20/ki) and whose control cycle runs the PID computation leaves an I
\* term of at least 20 %.
C33_PreloadReachesITerm ==
    [][\A c \in Ctrl :
          (/\ op'.name = "set_temperature" /\ op'.c = c
           /\ Truthy(ctl[c].current_temperature)
           /\ ctl'[c].target_temperature - ctl[c].current_temperature > 100
           /\ ctl[c].control_mode = "pid"
           /\ ctl[c].ki > 0
           /\ ctl[c].integral_error < (20 * PCT) \div ctl[c].ki
           /\ \E k \in DOMAIN calcs' : calcs'[k].c = c /\ calcs'[k].ran)
          => ctl'[c].last_i >= 20 * PCT]_vars

\* ------------------------------------------------- relaxing the base interval
\* The room stays within 0.1 degrees of the setpoint 21.5; the base interval is
\* set to 1, 30, 31 or 60 minutes.
RelaxStates == {2140, 2160}
RelaxValues == [min_valve_update_interval |-> {1, 30, 31, 60}]
RelaxTick == {600}
RelaxMaxTime == 2400
RelaxSamples == 3

InitRelax == InitWith({2140})

NextRelax ==
    \/ \E c \in Ctrl : AddedToHass(c, NoPosition)
    \/ \E c \in Ctrl : SensorChanged(c, RelaxStates, RelaxSamples)
    \/ \E c \in Ctrl : UpdateTimerFires(c)
    \/ \E c \in Ctrl : SetNativeValue(c, RelaxValues)
    \/ Tick(RelaxTick, RelaxMaxTime)

SpecRelax == InitRelax /\ [][NextRelax]_vars

C37_LastSetIsDelivered ==
    \A c \in Ctrl :
        ctl[c].last_set_valve_opening =
            IF act[c].opening = None THEN -1 ELSE act[c].opening

\* -------------------------------------------------- unloading during an exercise
\* The config entry is unloaded, and may be set up again, while the valve
\* exercise of the climate entity and the update timer run.
GoneTick == {300}
GoneMaxTime == 600

InitGone == InitWith({2100})

NextGone ==
    \/ \E c \in Ctrl : AddedToHass(c, NoPosition)
    \/ \E c \in Ctrl : WillRemoveFromHass(c)
    \/ \E c \in Ctrl : TriggerValveExercise(c)
    \/ ExerciseStep2
    \/ ExerciseStep3
    \/ \E c \in Ctrl : UpdateTimerFires(c)
    \/ Tick(GoneTick, GoneMaxTime)

SpecGone == InitGone /\ [][NextGone]_vars

\* C36: a controller that is not registered after a step has no pending update
\* timer, and the step attempted no valve write for it.
C36_RemovedControllerIsQuiet ==
    [][\A c \in Ctrl :
          ~ctl'[c].added
          => /\ \A i \in DOMAIN timers' : timers'[i].c # c
             /\ \A k \in DOMAIN out' : out'[k].c # c]_vars

\* the operations of SpecOff that run a control cycle and nothing else that
\* writes to the valve
CycleOnly == {"timer", "set_hvac_mode", "set_temperature"}

\* C34: when a control cycle has issued a valve write, a control cycle that
\* follows it with no time passed in between, and is not run by a setpoint
\* change, issues no valve write (the two would be less than
\* min_valve_update_interval apart).
C34_CycleWritesApart ==
    [][\A c \in Ctrl :
          (/\ op.c = c /\ op.name \in CycleOnly
           /\ \E k \in DOMAIN out : out[k].c = c
           /\ op'.c = c /\ op'.name \in CycleOnly \ {"set_temperature"}
           /\ ctl'[c].min_valve_update_interval > 0)
          => \A k \in DOMAIN out' : out'[k].c # c]_vars

\* ------------------------------------------ one room, one or two controllers
\* Two controllers of one room join within a few seconds of each other with the
\* sensor at 21.0; the sensor then reports 21.4, inside the hysteresis band of
\* the setpoint 21.5, and the handlers of the two controllers run interleaved
\* at their awaited service calls, which take a second or less.
PairStates == {2140}
PairTick == {1}
PairMaxTime == 3
PairSamples == 2

InitPair ==
    /\ now = 0
    /\ ctl = [c \in Room |-> InitCtl]
    /\ room_states = [r \in RoomKeys |-> NoRoomPIDState]
    /\ act = [c \in Room |-> [opening |-> None, closing |-> None]]
    /\ sensor = 2100
    /\ samples = [c \in Room |-> <<>>]
    /\ pending = <<>>
    /\ timers = <<>>
    /\ rooms = [r \in RoomKeys |-> <<>>]
    /\ created = [r \in RoomKeys |-> 0]
    /\ inflight = <<>>
    /\ switch = [c \in Ctrl |-> InitSwitch]
    /\ finished = <<>>
    /\ out = <<>>
    /\ calcs = <<>>
    /\ op = [name |-> "init", c |-> 0]

NextPair ==
    \/ \E c \in Room : AddedToHass(c, NoPosition)
    \/ SensorChangedStart(Room, PairStates, PairSamples)
    \/ ServiceCallReturns
    \/ Tick(PairTick, PairMaxTime)

SpecPair == InitPair /\ [][NextPair]_vars

\* C40: when a controller computes on a sample inside the hysteresis band for
\* which the other controller of the room has already computed, later than the
\* sample arrived and so with the decay applied, the shared integral_error
\* stays as it is: the room decays its integral once for the sample, as a room
\* served by one controller does.
C40_IntegralAsWithOneController ==
    [][\A c, d \in Room :
          (/\ c # d /\ op'.c = c
           /\ Len(samples[c]) = 2 /\ Len(samples[d]) = 2
           /\ samples[d][2] = samples[c][2]
           /\ room_states[room_key(c)].prev_error
                 = ctl[d].target_temperature - samples[d][2][2]
           /\ room_states[room_key(c)].last_calc_time > samples[d][2][1]
           /\ \E k \in DOMAIN calcs' :
                 /\ calcs'[k].c = c /\ calcs'[k].ran
                 /\ Abs(calcs'[k].error) < calcs'[k].hysteresis)
          => room_states'[room_key(c)].integral_error
                = room_states[room_key(c)].integral_error]_vars

====
